---- MODULE Spec2Model ----
(***************************************************************************)
(* A model of the DietBot chat backend (src/backend/api/chatbot.py): the   *)
(* session registry, the background ingestion run, the HTTP message and    *)
(* plan endpoints, the WebSocket chat loop, and the text functions they    *)
(* use (intent classifier, duration parser, response normaliser).          *)
(*                                                                         *)
(* Text is a sequence of one-character strings, so that substring tests,   *)
(* regular-expression searches and lower-casing are computed on the        *)
(* characters as the Python code computes them.                            *)
(***************************************************************************)
EXTENDS Integers, Sequences, FiniteSets, TLC

(***************************************************************************)
(* Characters and elementary string functions                              *)
(***************************************************************************)
Uppers == 
        <<"A","B","C","D","E","F","G","H","I","J","K","L","M","N","O","P","Q","R","S","T","U",
        "V","W","X","Y","Z">>

Lowers == 
        <<"a","b","c","d","e","f","g","h","i","j","k","l","m","n","o","p","q","r","s","t","u",
        "v","w","x","y","z">>

Digits == <<"0","1","2","3","4","5","6","7","8","9">>

\* str.lower() on one character
LowerChar(c) ==
    IF \E i \in DOMAIN Uppers : Uppers[i] = c
    THEN Lowers[CHOOSE i \in DOMAIN Uppers : Uppers[i] = c]
    ELSE c

\* str.lower()
Lower(s) == [i \in DOMAIN s |-> LowerChar(s[i])]

\* the characters the regular expression class \s matches
IsSpace(c) == c \in {" ", "\t", "\n", "\r"}

\* the characters the regular expression class \d matches
IsDigit(c) == \E i \in DOMAIN Digits : Digits[i] = c

\* the characters the regular expression class \w matches
IsWordChar(c) ==
    \/ IsDigit(c)
    \/ c = "_"
    \/ \E i \in DOMAIN Lowers : Lowers[i] = c \/ Uppers[i] = c

\* the value of one decimal digit
DigitVal(c) == (CHOOSE i \in DOMAIN Digits : Digits[i] = c) - 1

\* int(s) for a string of decimal digits
RECURSIVE ToInt(_)
ToInt(s) ==
    IF s = <<>> THEN 0
    ELSE 10 * ToInt(SubSeq(s, 1, Len(s) - 1)) + DigitVal(s[Len(s)])

\* s[p:p+len(k)] == k : k occurs in s at position p (1-based)
OccursAt(s, k, p) ==
    /\ p >= 1
    /\ p + Len(k) - 1 <= Len(s)
    /\ SubSeq(s, p, p + Len(k) - 1) = k

\* Python's  k in s  for strings
Contains(s, k) == \E p \in 1..(Len(s) + 1) : OccursAt(s, k, p)

(***************************************************************************)
(* is_diet_related_question                                                *)
(***************************************************************************)
keywords == <<
    <<"d","i","e","t">>, <<"f","o","o","d">>, <<"m","e","a","l">>, <<"e","a","t">>, <<"n","u","t","r","i","t","i","o","n">>, <<"s","u","g","a","r">>, <<"g","l","u","c","o","s","e">>,
    <<"c","a","r","b">>, <<"p","r","o","t","e","i","n">>,
    <<"d","i","a","b","e","t","e","s">>, <<"d","i","a","b","e","t","i","c">>, <<"b","l","o","o","d"," ","s","u","g","a","r">>, <<"i","n","s","u","l","i","n">>, <<"a","1","c">>, <<"g","l","y","c","e","m","i","c">>,
    <<"b","l","o","o","d"," ","p","r","e","s","s","u","r","e">>, <<"h","y","p","e","r","t","e","n","s","i","o","n">>, <<"s","o","d","i","u","m">>, <<"s","a","l","t">>, <<"d","a","s","h"," ","d","i","e","t">>,
    <<"b","r","e","a","k","f","a","s","t">>, <<"l","u","n","c","h">>, <<"d","i","n","n","e","r">>, <<"s","n","a","c","k">>, <<"p","o","r","t","i","o","n">>, <<"w","e","i","g","h","t">>, <<"b","m","i">>,
    <<"c","h","o","l","e","s","t","e","r","o","l">>, <<"f","a","t">>, <<"c","a","l","o","r","i","e">>, <<"e","x","e","r","c","i","s","e">>, <<"l","i","f","e","s","t","y","l","e">>, <<"m","a","n","a","g","e","m","e","n","t">>,
    <<"p","l","a","n">>, <<"d","i","e","t"," ","p","l","a","n">>, <<"d","a","y","s">>, <<"w","e","e","k">>, <<"m","o","n","t","h">> >>

is_diet_related_question(message) ==
    LET m == Lower(message)
    IN  \E j \in DOMAIN keywords : Contains(m, keywords[j])

(***************************************************************************)
(* parse_days_from_text                                                    *)
(***************************************************************************)
\* Python's None, as the result of parse_days_from_text and map_duration_to_days
\* (every number they return is >= 0)
None == -1

\* the last position of the longest run of characters of a class (digits,
\* blanks, ...) that starts at position p; p - 1 when that run is empty
RunEnd(s, p, InClass(_)) ==
    CHOOSE e \in (p - 1)..Len(s) :
        /\ \A q \in p..e : InClass(s[q])
        /\ e = Len(s) \/ ~InClass(s[e + 1])

DigitRunEnd(s, p) == RunEnd(s, p, IsDigit)

SpaceRunEnd(s, p) == RunEnd(s, p, IsSpace)

\* re.match of (\d+)\s*<unit> at position p: greedy digits, greedy blanks,
\* then the unit (no shorter choice of either run can be followed by it)
NumUnitAt(s, unit, p) ==
    /\ p <= Len(s)
    /\ IsDigit(s[p])
    /\ OccursAt(s, unit, SpaceRunEnd(s, DigitRunEnd(s, p) + 1) + 1)

\* re.search(r"(\d+)\s*<unit>(s)?", s): the positions where it matches
NumUnitMatches(s, unit) == {p \in 1..Len(s) : NumUnitAt(s, unit, p)}

\* group(1) of the leftmost match
NumUnitGroup(s, unit) ==
    LET p == CHOOSE q \in NumUnitMatches(s, unit) :
                 \A r \in NumUnitMatches(s, unit) : q <= r
    IN  SubSeq(s, p, DigitRunEnd(s, p))

\* \b at the gap before position p (between s[p-1] and s[p])
WordBoundary(s, p) ==
    LET before == p - 1 >= 1 /\ p - 1 <= Len(s) /\ IsWordChar(s[p - 1])
        after  == p >= 1 /\ p <= Len(s) /\ IsWordChar(s[p])
    IN  before # after

\* re.search(r"\b1\s*month\b", s)
OneMonthAt(s, p) ==
    /\ OccursAt(s, <<"1">>, p)
    /\ WordBoundary(s, p)
    /\ LET q == SpaceRunEnd(s, p + 1) + 1
       IN  /\ OccursAt(s, <<"m","o","n","t","h">>, q)
           /\ WordBoundary(s, q + 5)

\* re.search(r"\b30\s*day(s)?\b", s)
ThirtyDaysAt(s, p) ==
    /\ OccursAt(s, <<"3", "0">>, p)
    /\ WordBoundary(s, p)
    /\ LET q == SpaceRunEnd(s, p + 2) + 1
       IN  /\ OccursAt(s, <<"d","a","y">>, q)
           /\ \/ OccursAt(s, <<"s">>, q + 3) /\ WordBoundary(s, q + 4)
              \/ WordBoundary(s, q + 3)

\* a faulty parse_days_from_text that tries the weeks before the days
parse_days_weeks_first(message) ==
    LET msg == Lower(message)
    IN  IF NumUnitMatches(msg, <<"w","e","e","k">>) # {}
        THEN ToInt(NumUnitGroup(msg, <<"w","e","e","k">>)) * 7
        ELSE IF NumUnitMatches(msg, <<"d","a","y">>) # {}
        THEN ToInt(NumUnitGroup(msg, <<"d","a","y">>))
        ELSE IF \E p \in 1..Len(msg) : OneMonthAt(msg, p)
        THEN 30
        ELSE None

parse_days_from_text(message) ==
    LET msg == Lower(message)
    IN  IF NumUnitMatches(msg, <<"d","a","y">>) # {}
        THEN ToInt(NumUnitGroup(msg, <<"d","a","y">>))
        ELSE IF NumUnitMatches(msg, <<"w","e","e","k">>) # {}
        THEN ToInt(NumUnitGroup(msg, <<"w","e","e","k">>)) * 7
        ELSE IF \E p \in 1..Len(msg) : OneMonthAt(msg, p)
        THEN 30
        ELSE IF \E p \in 1..Len(msg) : ThirtyDaysAt(msg, p)
        THEN 30
        ELSE None

(***************************************************************************)
(* format_response                                                         *)
(* The bullet glyphs U+2022 and U+00B7 are written as the one-element      *)
(* strings "U+2022" and "U+00B7".                                          *)
(***************************************************************************)
\* the least element of a non-empty set of positions
First(S) == CHOOSE x \in S : \A y \in S : x <= y

\* str.strip()
Strip(s) ==
    LET kept == {i \in DOMAIN s : ~IsSpace(s[i])}
    IN  IF kept = {} THEN <<>>
        ELSE SubSeq(s, First(kept), CHOOSE x \in kept : \A y \in kept : y <= x)

NotStar(c) == c # "*"

NonStarRunEnd(s, p) == RunEnd(s, p, NotStar)

\* re.match of \*\*\*([^*]+)\*\*\* at position p
TripleAt(s, p) ==
    /\ OccursAt(s, <<"*", "*", "*">>, p)
    /\ NonStarRunEnd(s, p + 3) >= p + 3
    /\ OccursAt(s, <<"*", "*", "*">>, NonStarRunEnd(s, p + 3) + 1)

\* re.sub(r'\*\*\*([^*]+)\*\*\*', r'**\1**', s), scanning from position p:
\* the text up to the leftmost match is copied, the match is replaced, and
\* the scan goes on after the match
RECURSIVE FixTriple(_, _)
FixTriple(s, p) ==
    LET matches == {q \in p..Len(s) : TripleAt(s, q)}
    IN  IF matches = {} THEN SubSeq(s, p, Len(s))
        ELSE LET m == First(matches)
                 e == NonStarRunEnd(s, m + 3)
             IN  SubSeq(s, p, m - 1) \o <<"*", "*">> \o SubSeq(s, m + 3, e) \o <<"*", "*">>
                 \o FixTriple(s, e + 4)

IsHash(c) == c = "#"

HashRunEnd(s, p) == RunEnd(s, p, IsHash)

\* re.sub(r'#{4,}', '###', s), scanning from position p
RECURSIVE LimitHeadings(_, _)
LimitHeadings(s, p) ==
    LET matches == {q \in p..Len(s) : s[q] = "#" /\ HashRunEnd(s, q) - q + 1 >= 4}
    IN  IF matches = {} THEN SubSeq(s, p, Len(s))
        ELSE LET m == First(matches)
             IN  SubSeq(s, p, m - 1) \o <<"#", "#", "#">>
                 \o LimitHeadings(s, HashRunEnd(s, m) + 1)

\* the positions of the newlines in the run of blanks that starts at p
NewlinesFrom(s, p) == {i \in p..SpaceRunEnd(s, p) : s[i] = "\n"}

\* re.sub(r'\n\s*\n\s*\n+', '\n\n', s), scanning from position p: a match
\* starts at a newline whose run of blanks holds three newlines or more and
\* ends at the last newline of that run
RECURSIVE CollapseBlankLines(_, _)
CollapseBlankLines(s, p) ==
    LET matches == {q \in p..Len(s) : s[q] = "\n" /\ Cardinality(NewlinesFrom(s, q)) >= 3}
    IN  IF matches = {} THEN SubSeq(s, p, Len(s))
        ELSE LET m == First(matches)
                 end == CHOOSE i \in NewlinesFrom(s, m) :
                            \A j \in NewlinesFrom(s, m) : j <= i
             IN  SubSeq(s, p, m - 1) \o <<"\n", "\n">> \o CollapseBlankLines(s, end + 1)

\* str.splitlines() for the line ends \n, \r and \r\n
RECURSIVE SplitLines(_)
SplitLines(s) ==
    IF s = <<>> THEN <<>>
    ELSE IF \A i \in DOMAIN s : s[i] \notin {"\n", "\r"} THEN <<s>>
    ELSE LET brk == CHOOSE i \in DOMAIN s :
                        /\ s[i] \in {"\n", "\r"}
                        /\ \A j \in 1..(i - 1) : s[j] \notin {"\n", "\r"}
             nxt == IF s[brk] = "\r" /\ brk + 1 <= Len(s) /\ s[brk + 1] = "\n"
                    THEN brk + 2 ELSE brk + 1
         IN  <<SubSeq(s, 1, brk - 1)>> \o SplitLines(SubSeq(s, nxt, Len(s)))

BulletGlyphs == {"U+2022", "*", "U+00B7"}

\* one iteration of the loop over text.splitlines()
FormatLine(raw_line) ==
    LET line == Strip(raw_line)
    IN  IF line = <<>> THEN <<>>
        ELSE IF Len(line) >= 2 /\ line[1] \in BulletGlyphs /\ IsSpace(line[2])
        THEN <<"-", " ">> \o SubSeq(line, SpaceRunEnd(line, 2) + 1, Len(line))
        ELSE line

\* '\n'.join(lines)
RECURSIVE JoinLines(_)
JoinLines(lines) ==
    IF lines = <<>> THEN <<>>
    ELSE IF Len(lines) = 1 THEN lines[1]
    ELSE lines[1] \o <<"\n">> \o JoinLines(Tail(lines))

format_response(raw_text) ==
    IF raw_text = <<>> \/ Strip(raw_text) = <<>> THEN raw_text
    ELSE LET text1 == Strip(raw_text)
             text2 == FixTriple(text1, 1)
             text3 == LimitHeadings(text2, 1)
             text4 == CollapseBlankLines(text3, 1)
             split == SplitLines(text4)
             lines == [i \in DOMAIN split |-> FormatLine(split[i])]
             text5 == JoinLines(lines)
         IN  CollapseBlankLines(text5, 1)

format_general_response ==
    
        <<"S","o","r","r","y",","," ","I"," ","c","a","n"," ","o","n","l","y"," ","h","e","l",
        "p"," ","w","i","t","h"," ","d","i","e","t"," ","p","l","a","n","n","i","n","g"," ","a",
        "n","d"," ","n","u","t","r","i","t","i","o","n"," ","f","o","r"," ","d","i","a","b","e",
        "t","e","s"," ","a","n","d"," ","b","l","o","o","d"," ","p","r","e","s","s","u","r","e",
        "."," ","A","s","k"," ","a","b","o","u","t"," ","d","i","e","t",","," ","m","e","a","l",
        "s",","," ","o","r"," ","g","e","n","e","r","a","t","e"," ","a"," ","p","l","a","n"," ",
        "(","7",","," ","1","0",","," ","1","4",","," ","2","1",","," ","o","r"," ","3","0"," ",
        "d","a","y","s",")",".">>

unsupported_duration_response ==
    
        <<"I"," ","c","a","n"," ","g","e","n","e","r","a","t","e"," ","d","i","e","t"," ","p",
        "l","a","n","s"," ","f","o","r"," ","t","h","e","s","e"," ","d","u","r","a","t","i","o",
        "n","s",":"," ","7"," ","d","a","y","s"," ","(","1"," ","w","e","e","k",")",","," ","1",
        "0"," ","d","a","y","s",","," ","1","4"," ","d","a","y","s",","," ","2","1"," ","d","a",
        "y","s",","," ","o","r"," ","3","0"," ","d","a","y","s"," ","(","1"," ","m","o","n","t",
        "h",")","."," ","P","l","e","a","s","e"," ","c","h","o","o","s","e"," ","o","n","e"," ",
        "o","f"," ","t","h","e","s","e"," ","o","p","t","i","o","n","s",".">>

(***************************************************************************)
(* map_duration_to_days                                                    *)
(***************************************************************************)
mapping ==
    [d \in {"1_week", "10_days", "14_days", "21_days", "1_month"} |->
        CASE d = "1_week"  -> 7
          [] d = "10_days" -> 10
          [] d = "14_days" -> 14
          [] d = "21_days" -> 21
          [] d = "1_month" -> 30]

\* a faulty map_duration_to_days that also takes "7_days" and "30_days"
map_duration_to_days_lenient(duration) ==
    IF duration \in DOMAIN mapping THEN mapping[duration]
    ELSE IF duration = "7_days" THEN 7
    ELSE IF duration = "30_days" THEN 30
    ELSE None

\* mapping.get(duration)
map_duration_to_days(duration) ==
    IF duration \in DOMAIN mapping THEN mapping[duration] ELSE None

\* a faulty set of supported day counts, with 35 and 45 in it
supported_days_widened == {7, 10, 14, 21, 30, 35, 45}

supported_days == {7, 10, 14, 21, 30}

(***************************************************************************)
(* Bounds of the model and the inputs the clients may send                 *)
(***************************************************************************)
\* sessions that may be created
MaxSessions == 2

\* files carried by one session-creation or upload request
MaxFiles == 2

\* client requests (HTTP requests and WebSocket frames received) that change the
\* state of the server in one run; a request that leaves it as it was is not counted
MaxRequests == 2

\* WebSocket connections opened in one run
MaxConnections == 2

MAX_UPLOAD_SIZE_MB == 25

ALLOWED_MIME_TYPES == {"application/pdf", "image/jpeg", "image/jpg", "image/png"}

\* an identifier no session was created with
UnknownSession == 0

\* the uploads a client may send; size is in MB; the file name is given as
\* os.path.splitext splits it
UploadFiles ==
    { [base |-> "report", ext |-> ".pdf", content_type |-> "application/pdf", size |-> 1],
      [base |-> "scan",   ext |-> ".png", content_type |-> "image/png",       size |-> 1],
      [base |-> "notes",  ext |-> ".txt", content_type |-> "text/plain",      size |-> 1],
      [base |-> "huge",   ext |-> ".pdf", content_type |-> "application/pdf", size |-> 26] }

RECURSIVE SeqsUpTo(_, _)
SeqsUpTo(S, n) ==
    IF n = 0 THEN {<<>>}
    ELSE LET shorter == SeqsUpTo(S, n - 1)
         IN  shorter \cup {Append(q, e) : q \in shorter, e \in S}

UploadLists == SeqsUpTo(UploadFiles, MaxFiles)

\* the medical_condition form field: a JSON document, or text json.loads rejects
MedicalConditions == {"profile", "not json"}

\* the messages a client may send
WeatherMessage == 
        <<"W","h","a","t","'","s"," ","t","h","e"," ","w","e","a","t","h","e","r"," ","t","o",
        "d","a","y","?">>

HelloMessage == <<"H","e","l","l","o"," ","t","h","e","r","e">>

Plan14Message == 
        <<"d","i","e","t"," ","p","l","a","n"," ","f","o","r"," ","1","4"," ","d","a","y","s">>

Plan45Message == 
        <<"d","i","e","t"," ","p","l","a","n"," ","f","o","r"," ","4","5"," ","d","a","y","s">>

Plan3MonthsMessage == 
        <<"d","i","e","t"," ","p","l","a","n"," ","f","o","r"," ","3"," ","m","o","n","t","h",
        "s">>

Plan5WeeksMessage == 
        <<"m","e","a","l"," ","p","l","a","n"," ","f","o","r"," ","5"," ","w","e","e","k","s">>

ByeMessage == <<" ","B","y","e"," ">>

Messages ==
    {WeatherMessage, HelloMessage, Plan14Message, Plan45Message, Plan3MonthsMessage,
     Plan5WeeksMessage, ByeMessage}

\* messages that ask for a plan of each of the supported lengths
PlanMessages ==
    { 
        <<"d","i","e","t"," ","p","l","a","n"," ","f","o","r"," ","7"," ","d","a","y","s">>, 
        <<"G","i","v","e"," ","m","e"," ","a"," ","1","0"," ","d","a","y"," ","m","e","a","l",
        " ","p","l","a","n">>, Plan14Message,
      
        <<"d","i","e","t"," ","p","l","a","n"," ","f","o","r"," ","3"," ","w","e","e","k","s">>, 
        <<"D","i","e","t"," ","p","l","a","n"," ","f","o","r"," ","1"," ","m","o","n","t","h">> }

\* the duration keys a client may send to the plan endpoint
DurationKeys ==
    {"1_week", "10_days", "14_days", "21_days", "1_month", "7_days", "30_days", "2_weeks"}

\* the texts the completer may return
RawOutputs == { 
        <<"*","*","*","T","i","p","*","*","*","\n","\n","\n","\n","*"," ","o","a","t","s">> }

(***************************************************************************)
(* The text functions tabulated over the texts of the model: a handler     *)
(* that calls f(text) reads f_of[text], which holds f(text).               *)
(***************************************************************************)
strip_of == [m \in Messages \cup PlanMessages |-> Strip(m)]

lower_of ==
    [m \in DOMAIN strip_of \cup {strip_of[t] : t \in DOMAIN strip_of} |-> Lower(m)]

MessageTexts == DOMAIN lower_of \cup {lower_of[t] : t \in DOMAIN lower_of}

is_diet_related_question_of == [m \in MessageTexts |-> is_diet_related_question(m)]

parse_days_from_text_of == [m \in MessageTexts |-> parse_days_from_text(m)]

format_response_of ==
    [t \in RawOutputs \cup {<<>>, format_general_response, unsupported_duration_response} |->
        format_response(t)]

(***************************************************************************)
(* State                                                                   *)
(***************************************************************************)
VARIABLES
    sessions,       \* the dict sessions: session id -> session record
    ingest_tasks,   \* the dict ingest_tasks: session id -> status record
    background,     \* background tasks added to a response and not yet started
    run,            \* the ingest_files_background coroutine being executed
    disk,           \* per session: the files under its uploads directory
    conns,          \* the websocket_chat coroutines, one per connection
    last,           \* the request the latest step handled and its outcome
                    \* (op "none" when the latest step handled no request)
    clock,          \* the number of requests, since the initial state, that
                    \* changed the server's state
    phrase,         \* the text given to parse_days_from_text on its own
    parsed,         \* whether parse_days_from_text has been applied to phrase
    parse_result,   \* what it returned
    raw_output,     \* the text given to format_response on its own
    formatted       \* whether it has been applied, and what it returned

vars ==
    <<sessions, ingest_tasks, background, run, disk, conns, last, clock,
      phrase, parsed, parse_result, raw_output, formatted>>

\* d[k] = v on a dict
Put(d, k, v) == [x \in DOMAIN d \cup {k} |-> IF x = k THEN v ELSE d[x]]

\* the detail strings of ingest_tasks, with the values formatted into them
Detail(msg, i, n, err) == [msg |-> msg, i |-> i, n |-> n, err |-> err]

\* an entry of ingest_tasks; percent is None when the dict has no such key
Status(status, detail, percent) ==
    [status |-> status, detail |-> detail, percent |-> percent]

NotFormatted == [applied |-> FALSE, text |-> <<>>]

IdleRun == [pc |-> "idle", session_id |-> 0, file_paths |-> <<>>, i |-> 0]

\* the local variable retrieved_context of a handler: not yet assigned, or
\* the hits it was built from (no hits: the empty string)
Unbound == [bound |-> FALSE, hits |-> <<>>]

Bound(hits) == [bound |-> TRUE, hits |-> hits]

NoConn ==
    [state |-> "none", session_id |-> 0, pc |-> "recv", message |-> <<>>,
     response_text |-> <<>>, i |-> 0, retrieved_context |-> Unbound,
     frames |-> <<>>, sources |-> <<>>, request |-> 0, close_code |-> 0]

\* the body of a response that carries no ingestion status
NoStatus == Status("", Detail("", 0, 0, ""), None)

\* the meta of a ChatResponse
Meta(session_id, user_data) == [session_id |-> session_id, user_data |-> user_data]

\* the JSON body of the response of an upload: the value of its key "status"
\* or "message" (the other is absent, written ""), and the names in "files"
Body(status, message, files) == [status |-> status, message |-> message, files |-> files]

NoBody == Body("", "", <<>>)

\* what the client sent and got back, and what the handler called on the
\* way; the fields message_id and meta (ChatResponse), chat_history (history
\* read), ingest (status read), files (the files of an upload) and body are
\* filled in by the handlers that return them
Outcome(op, session_id, message, duration, status_code, response, sources, retr, prompts) ==
    [op |-> op, session_id |-> session_id, message |-> message, duration |-> duration,
     status_code |-> status_code, response |-> response, sources |-> sources,
     retr |-> retr, prompts |-> prompts,
     message_id |-> 0, meta |-> Meta(0, ""), chat_history |-> <<>>, ingest |-> NoStatus,
     files |-> <<>>, body |-> NoBody]

NoRequest == Outcome("none", 0, <<>>, "", 0, <<>>, <<>>, 0, <<>>)

\* the state of the server
server == <<sessions, ingest_tasks, background, run, disk, conns>>

\* the request of this step is counted if it changes the state of the server
Tick ==
    /\ clock' = IF server' = server THEN clock ELSE clock + 1
    /\ UNCHANGED <<phrase, parsed, parse_result, raw_output, formatted>>

\* a step of the server that handles no request
Internal ==
    /\ last' = NoRequest
    /\ UNCHANGED <<clock, phrase, parsed, parse_result, raw_output, formatted>>

\* the server after the module is imported: no session, no connection
Started ==
    /\ sessions = <<>>
    /\ ingest_tasks = <<>>
    /\ background = {}
    /\ run = IdleRun
    /\ disk = <<>>
    /\ conns = [c \in 1..MaxConnections |-> NoConn]
    /\ last = NoRequest
    /\ clock = 0

Init ==
    /\ Started
    /\ phrase = <<>>
    /\ parsed = FALSE
    /\ parse_result = None
    /\ raw_output = <<>>
    /\ formatted = NotFormatted

\* the event loop is free: no coroutine without suspension points is running
LoopFree == run.pc = "idle"

\* a client request can be taken
Ready == LoopFree /\ clock < MaxRequests

(***************************************************************************)
(* create_chat_session                                                     *)
(***************************************************************************)
validate_file(file) ==
    /\ file.content_type \in ALLOWED_MIME_TYPES
    /\ ~(file.size > MAX_UPLOAD_SIZE_MB)

\* the loop over files: the paths of the files that pass validate_file
RECURSIVE SavedPaths(_)
SavedPaths(files) ==
    IF files = <<>> THEN <<>>
    ELSE IF validate_file(Head(files))
    THEN <<[base |-> Head(files).base, ext |-> Head(files).ext]>> \o SavedPaths(Tail(files))
    ELSE SavedPaths(Tail(files))

Range(q) == {q[i] : i \in DOMAIN q}

\* a faulty InitialIngestStatus that queues a session without files
InitialIngestStatusQueued(file_paths) ==
    Status("queued", Detail("Files queued for processing", 0, 0, ""), None)

\* the entry create_chat_session writes to ingest_tasks
InitialIngestStatus(file_paths) ==
    IF file_paths # <<>>
    THEN Status("queued", Detail("Files queued for processing", 0, 0, ""), None)
    ELSE Status("completed", Detail("No files to process", 0, 0, ""), None)

\* faulty background tasks that name a session that was never registered
InitialTasksElsewhere(session_id, file_paths, medical_data) ==
    IF file_paths # <<>>
    THEN {[session_id |-> session_id + MaxSessions, file_paths |-> file_paths,
           user_data |-> medical_data]}
    ELSE {}

\* the background tasks create_chat_session adds
InitialTasks(session_id, file_paths, medical_data) ==
    IF file_paths # <<>>
    THEN {[session_id |-> session_id, file_paths |-> file_paths, user_data |-> medical_data]}
    ELSE {}

create_chat_session(medical_condition, files) ==
    /\ Ready
    /\ Cardinality(DOMAIN sessions) < MaxSessions
    /\ IF medical_condition = "not json"
       THEN \* json.loads raises: 500
            /\ last' = [Outcome("create_chat_session", 0, <<>>, "", 500, <<>>, <<>>, 0, <<>>)
                           EXCEPT !.files = files]
            /\ UNCHANGED <<sessions, ingest_tasks, background, run, disk, conns>>
       ELSE LET session_id == Cardinality(DOMAIN sessions) + 1
                file_paths == SavedPaths(files)
            IN  /\ disk' = Put(disk, session_id,
                               [uploads |-> Range(file_paths), index |-> {}, ocr |-> {},
                                meta |-> FALSE])
                /\ sessions' = Put(sessions, session_id,
                                   [user_data |-> medical_condition, files |-> file_paths,
                                    chat_history |-> <<>>, diet_plans |-> <<>>,
                                    feedback |-> <<>>])
                /\ background' = background
                                   \cup InitialTasks(session_id, file_paths, medical_condition)
                /\ ingest_tasks' = Put(ingest_tasks, session_id, InitialIngestStatus(file_paths))
                \* line 404
                /\ last' = [Outcome("create_chat_session", session_id, <<>>, "", 200,
                                    <<>>, <<>>, 0, <<>>)
                               EXCEPT !.files = files,
                                      !.body = Body("created", "", <<>>)]
                /\ UNCHANGED <<run, conns>>
    /\ Tick

(***************************************************************************)
(* ingest_files_background: a coroutine with no suspension point, so the   *)
(* event loop runs nothing else from its first line to its last.  Its      *)
(* writes to ingest_tasks are separate steps of the model.                 *)
(***************************************************************************)
\* a faulty Percent that counts the files still to do
PercentRemaining(i, n) == ((n - i) * 100) \div n

(***************************************************************************)
(* int((i / len(file_paths)) * 100) in Python's floats (IEEE 754 doubles): *)
(* the quotient is rounded to 53 significant bits, so is its product with  *)
(* 100, and int() drops the fraction.  A mantissa is a sequence of bits,   *)
(* the most significant first.                                             *)
(***************************************************************************)
\* count bits of r / n for 0 <= r < 2n: the integer bit, then the fraction
RECURSIVE QuotientBits(_, _, _)
QuotientBits(r, n, count) ==
    IF count = 0 THEN <<>>
    ELSE IF r >= n THEN <<1>> \o QuotientBits(2 * (r - n), n, count - 1)
    ELSE <<0>> \o QuotientBits(2 * r, n, count - 1)

\* whether that division leaves a remainder after count bits
RECURSIVE QuotientInexact(_, _, _)
QuotientInexact(r, n, count) ==
    IF count = 0 THEN r # 0
    ELSE IF r >= n THEN QuotientInexact(2 * (r - n), n, count - 1)
    ELSE QuotientInexact(2 * r, n, count - 1)

\* bits + 1
RECURSIVE Increment(_)
Increment(bits) ==
    IF bits = <<>> THEN <<1>>
    ELSE IF bits[Len(bits)] = 0 THEN [bits EXCEPT ![Len(bits)] = 1]
    ELSE Increment(SubSeq(bits, 1, Len(bits) - 1)) \o <<0>>

\* round to nearest, ties to even: the 53-bit mantissa of the number whose
\* leading bits are bits (more: it has non-zero bits after them), and how
\* many of the bits were dropped
RoundMantissa(bits, more) ==
    IF Len(bits) <= 53 THEN [m |-> bits, drop |-> 0]
    ELSE LET kept == SubSeq(bits, 1, 53)
             tail == SubSeq(bits, 55, Len(bits))
             sticky == more \/ \E j \in DOMAIN tail : tail[j] = 1
             up == bits[54] = 1 /\ (sticky \/ kept[53] = 1)
             rounded == IF up THEN Increment(kept) ELSE kept
         IN  IF Len(rounded) = 54
             THEN [m |-> SubSeq(rounded, 1, 53), drop |-> Len(bits) - 53 + 1]
             ELSE [m |-> rounded, drop |-> Len(bits) - 53]

Reverse(q) == [j \in 1..Len(q) |-> q[Len(q) + 1 - j]]

\* k times the number whose bits, the least significant first, are lsb
RECURSIVE TimesSmall(_, _, _)
TimesSmall(lsb, k, carry) ==
    IF lsb = <<>>
    THEN IF carry = 0 THEN <<>> ELSE <<carry % 2>> \o TimesSmall(<<>>, k, carry \div 2)
    ELSE <<(Head(lsb) * k + carry) % 2>>
         \o TimesSmall(Tail(lsb), k, (Head(lsb) * k + carry) \div 2)

\* the number whose bits are bits
RECURSIVE BitsValue(_)
BitsValue(bits) ==
    IF bits = <<>> THEN 0
    ELSE 2 * BitsValue(SubSeq(bits, 1, Len(bits) - 1)) + bits[Len(bits)]

\* the least k with i * 2^k >= n, for 0 < i < n
RECURSIVE ShiftToOne(_, _)
ShiftToOne(i, n) == IF i >= n THEN 0 ELSE 1 + ShiftToOne(2 * i, n)

\* 2^k
RECURSIVE Pow2(_)
Pow2(k) == IF k = 0 THEN 1 ELSE 2 * Pow2(k - 1)

\* int((i / n) * 100) for 0 <= i < n
Percent(i, n) ==
    IF i = 0 THEN 0
    ELSE LET k == ShiftToOne(i, n)
             \* i / n = 0.b1 b2 ... * 2^(1 - k), with b1 = 1
             quotient == RoundMantissa(QuotientBits(i * Pow2(k), n, 55),
                                       QuotientInexact(i * Pow2(k), n, 55))
             product == RoundMantissa(Reverse(TimesSmall(Reverse(quotient.m), 100, 0)),
                                      FALSE)
             \* (i / n) * 100 = product.m * 2^(-fraction)
             fraction == 54 + k - quotient.drop - product.drop
         IN  IF fraction >= 53 THEN 0
             ELSE BitsValue(SubSeq(product.m, 1, 53 - fraction))

\* line 202
IngestStart(task) ==
    /\ LoopFree
    /\ task \in background
    /\ background' = background \ {task}
    /\ ingest_tasks' = Put(ingest_tasks, task.session_id,
                           Status("in_progress", Detail("Starting ingestion...", 0, 0, ""), None))
    /\ run' = [pc |-> "loop", session_id |-> task.session_id,
               file_paths |-> task.file_paths, i |-> 0]
    /\ UNCHANGED <<sessions, disk, conns>>
    /\ Internal

\* lines 210-211: item assignments on the entry of ingest_tasks
IngestProgress ==
    /\ run.pc = "loop"
    /\ run.i < Len(run.file_paths)
    /\ ingest_tasks' =
          [ingest_tasks EXCEPT
              ![run.session_id].detail =
                  Detail("Processing file", run.i + 1, Len(run.file_paths), ""),
              ![run.session_id].percent = Percent(run.i, Len(run.file_paths))]
    /\ run' = [run EXCEPT !.pc = "process"]
    /\ UNCHANGED <<sessions, background, disk, conns>>
    /\ Internal

\* a faulty handler that does not keep the error in the detail
IngestFailedSilently(err) ==
    /\ ingest_tasks' = Put(ingest_tasks, run.session_id,
                           Status("failed", Detail("Ingestion failed", 0, 0, ""), 0))
    /\ run' = IdleRun

\* lines 249-253: the handler of any exception of the run
IngestFailed(err) ==
    /\ ingest_tasks' = Put(ingest_tasks, run.session_id,
                           Status("failed", Detail("Ingestion failed", 0, 0, err), 0))
    /\ run' = IdleRun

\* extract_and_parse raises ValueError for an extension it does not know
OcrSupported(ext) == ext \in {".jpg", ".jpeg", ".png", ".pdf"}

\* a faulty IngestProcess that builds an index for every file
IngestProcessIndexAll(ok) ==
    /\ run.pc = "process"
    /\ IF ok
       THEN /\ disk' = [disk EXCEPT ![run.session_id].index =
                           @ \cup {run.file_paths[run.i + 1].base}]
            /\ run' = [run EXCEPT !.pc = "loop", !.i = @ + 1]
            /\ UNCHANGED ingest_tasks
       ELSE /\ IngestFailed("process_pdf_to_faiss")
            /\ UNCHANGED disk
    /\ UNCHANGED <<sessions, background, conns>>
    /\ Internal

\* lines 213-227: one file; a collaborator returns (ok) or raises
IngestProcess(ok) ==
    /\ run.pc = "process"
    /\ LET file_path == run.file_paths[run.i + 1]
           s == run.session_id
       IN  IF file_path.ext = ".pdf"
           THEN IF ok
                THEN /\ disk' = [disk EXCEPT ![s].index = @ \cup {file_path.base}]
                     /\ run' = [run EXCEPT !.pc = "loop", !.i = @ + 1]
                     /\ UNCHANGED ingest_tasks
                ELSE /\ IngestFailed("process_pdf_to_faiss")
                     /\ UNCHANGED disk
           ELSE IF ok /\ OcrSupported(file_path.ext)
                THEN /\ disk' = [disk EXCEPT ![s].ocr = @ \cup {file_path.base}]
                     /\ run' = [run EXCEPT !.pc = "loop", !.i = @ + 1]
                     /\ UNCHANGED ingest_tasks
                ELSE /\ IngestFailed("extract_and_parse")
                     /\ UNCHANGED disk
    /\ UNCHANGED <<sessions, background, conns>>
    /\ Internal

\* lines 229-233
IngestComplete ==
    /\ run.pc = "loop"
    /\ run.i = Len(run.file_paths)
    /\ ingest_tasks' = Put(ingest_tasks, run.session_id,
                           Status("completed",
                                  Detail("Successfully processed", 0, Len(run.file_paths), ""),
                                  100))
    /\ run' = [run EXCEPT !.pc = "meta"]
    /\ UNCHANGED <<sessions, background, disk, conns>>
    /\ Internal

\* lines 235-246: the session metadata file is written, or open() raises
IngestSaveMeta(ok) ==
    /\ run.pc = "meta"
    /\ IF ok
       THEN /\ disk' = [disk EXCEPT ![run.session_id].meta = TRUE]
            /\ run' = IdleRun
            /\ UNCHANGED ingest_tasks
       ELSE /\ IngestFailed("open")
            /\ UNCHANGED disk
    /\ UNCHANGED <<sessions, background, conns>>
    /\ Internal

(***************************************************************************)
(* The collaborators: KnowledgeBaseRetriever and generate_diet_plan_with_gemini *)
(***************************************************************************)
\* a call of the retriever returns its hits or raises
RetrieverOutcomes == {"ok", "raise"}

\* a call of the completer returns a text or raises
CompleterOutcomes ==
    {[raises |-> TRUE, text |-> <<>>]} \cup {[raises |-> FALSE, text |-> t] : t \in RawOutputs}

\* a faulty Raised: the exception is swallowed and the handler goes on with
\* an empty text
RaisedSwallowed(llm) == FALSE

\* the call of the completer left by an exception: the statements after it
\* in the try block are skipped
Raised(llm) == llm.raises

RECURSIVE SetToSeq(_)
SetToSeq(S) ==
    IF S = {} THEN <<>>
    ELSE LET e == CHOOSE x \in S : TRUE IN <<e>> \o SetToSeq(S \ {e})

\* os.path.exists(faiss_dir) and any(f.endswith('.index') ...)
HasIndex(session_id) == disk[session_id].index # {}

\* the source files of the hits retrieve() returns for the session's indexes
Hits(session_id) == SetToSeq(disk[session_id].index)

\* a faulty RetrievedContext that keeps the hits when the retriever raises
RetrievedContextKept(session_id, r) ==
    IF HasIndex(session_id) THEN Hits(session_id) ELSE <<>>

\* lines 443-451: retrieved_context, empty without an index, without hits or
\* when the retriever raises (r is the outcome of the call, if it is made)
RetrievedContext(session_id, r) ==
    IF HasIndex(session_id) /\ r = "ok" THEN Hits(session_id) ELSE <<>>

\* the outcomes of a call of retrieve() for the session: it is called only
\* when the session has an index
RetrieverCalls(session_id) ==
    IF session_id \in DOMAIN sessions /\ HasIndex(session_id) THEN RetrieverOutcomes
    ELSE {"ok"}

\* how many calls of retrieve() that makes
ContextCalls(session_id) == IF HasIndex(session_id) THEN 1 ELSE 0

\* lines 529-543: the sources, retrieved again when the context is not empty
Sources(session_id, retrieved_context, r) ==
    IF retrieved_context # <<>> /\ r = "ok" THEN Hits(session_id) ELSE <<>>

SourceCalls(retrieved_context) == IF retrieved_context # <<>> THEN 1 ELSE 0

\* a faulty PlanPrompt that always asks for a week
PlanPromptWeekly(days, retrieved_context, ocr) ==
    [kind |-> "plan", days |-> 7, question |-> <<>>, context |-> retrieved_context,
     ocr |-> ocr]

\* the prompts given to the completer, by what is formatted into them
PlanPrompt(days, retrieved_context, ocr) ==
    [kind |-> "plan", days |-> days, question |-> <<>>, context |-> retrieved_context,
     ocr |-> ocr]

GeneralPrompt(message, retrieved_context, ocr) ==
    [kind |-> "general", days |-> None, question |-> message, context |-> retrieved_context,
     ocr |-> ocr]

\* lines 454-460: whether a *_ocr.json file of the session is read
OcrData(session_id) == disk[session_id].ocr # {}

\* f"{requested_days}_days"
DaysLabel(days) == ToString(days) \o "_days"

\* a faulty IngestionPending that holds messages back only until the run ends
IngestionPendingUntilRunEnds(session_id) ==
    /\ session_id \in DOMAIN ingest_tasks
    /\ ingest_tasks[session_id].status \in {"queued", "in_progress"}

\* a faulty IngestionPending that lets a failed ingestion pass
IngestionPendingWhileQueued(session_id) ==
    /\ session_id \in DOMAIN ingest_tasks
    /\ ingest_tasks[session_id].status = "queued"

\* the check "session_id in ingest_tasks and ingest_tasks[session_id]["status"]
\* != "completed"" of lines 428, 598 and 835
IngestionPending(session_id) ==
    /\ session_id \in DOMAIN ingest_tasks
    /\ ingest_tasks[session_id].status # "completed"

\* the dict appended to chat_history; its message_id, a fresh uuid4 in the
\* code, is the number of the request in the order of arrival
ChatEntry(message_id, user_message, assistant_response, sources) ==
    [message_id |-> message_id, user_message |-> user_message,
     assistant_response |-> assistant_response, sources |-> sources]

\* a faulty append that writes back a history read before the other entries
\* were appended
OverwriteEntries(chat_history, chat_entry) == <<chat_entry>>

\* a faulty append that puts the entry in front
PrependEntry(chat_history, chat_entry) == <<chat_entry>> \o chat_history

\* session["chat_history"].append(chat_entry)
AppendEntry(chat_history, chat_entry) == Append(chat_history, chat_entry)

(***************************************************************************)
(* send_message: a coroutine with no suspension point                      *)
(***************************************************************************)
send_message(session_id, message, r1, llm, r2) ==
    /\ Ready
    /\ UNCHANGED <<ingest_tasks, background, run, disk, conns>>
    /\ LET Error(retr, prompts) ==
               \* every exception, the HTTPExceptions of lines 422 and 429
               \* included, is caught at line 563 and raised again as a 500
               /\ last' = Outcome("send_message", session_id, message, "", 500, <<>>,
                                  <<>>, retr, prompts)
               /\ UNCHANGED sessions
           Reply(raw_text, retrieved_context, retr, prompts, plans) ==
               \* lines 525-561
               LET response_text == format_response_of[raw_text]
                   sources == Sources(session_id, retrieved_context, r2)
                   entry == ChatEntry(clock + 1, message, response_text, sources)
               IN  /\ sessions' = [sessions EXCEPT
                                      ![session_id].diet_plans = @ \o plans,
                                      ![session_id].chat_history = AppendEntry(@, entry)]
                   /\ last' = [Outcome("send_message", session_id, message, "", 200,
                                       response_text, sources,
                                       retr + SourceCalls(retrieved_context), prompts)
                                  EXCEPT !.message_id = entry.message_id,
                                         !.meta = Meta(session_id,
                                                       sessions[session_id].user_data)]
       IN  IF session_id \notin DOMAIN sessions THEN Error(0, <<>>)
           ELSE IF IngestionPending(session_id) THEN Error(0, <<>>)
           ELSE IF ~is_diet_related_question_of[lower_of[message]]
           THEN \* retrieved_context is read at line 530 and was never assigned:
                \* UnboundLocalError
                Error(0, <<>>)
           ELSE LET requested_days == parse_days_from_text_of[lower_of[message]]
                    retrieved_context == RetrievedContext(session_id, r1)
                    retr == ContextCalls(session_id)
                    ocr_data == OcrData(session_id)
                IN  IF requested_days # None
                    THEN IF requested_days \in supported_days
                         THEN LET prompt == PlanPrompt(requested_days, retrieved_context,
                                                       ocr_data)
                              IN  IF Raised(llm) THEN Error(retr, <<prompt>>)
                                  ELSE Reply(llm.text, retrieved_context, retr, <<prompt>>,
                                             <<[duration |-> DaysLabel(requested_days),
                                                plan |-> llm.text]>>)
                         ELSE Reply(unsupported_duration_response, retrieved_context,
                                    retr, <<>>, <<>>)
                    ELSE LET prompt == GeneralPrompt(message, retrieved_context, ocr_data)
                         IN  IF Raised(llm) THEN Error(retr, <<prompt>>)
                             ELSE Reply(llm.text, retrieved_context, retr, <<prompt>>, <<>>)
    /\ Tick

(***************************************************************************)
(* generate_diet_plan: a coroutine with no suspension point                *)
(***************************************************************************)
generate_diet_plan(session_id, duration, r1, llm) ==
    /\ Ready
    /\ UNCHANGED <<ingest_tasks, background, run, disk, conns>>
    /\ LET Answer(status_code, response, retr, prompts) ==
               last' = Outcome("generate_diet_plan", session_id, <<>>, duration,
                               status_code, response, <<>>, retr, prompts)
       IN  IF session_id \notin DOMAIN sessions
           THEN Answer(404, <<>>, 0, <<>>) /\ UNCHANGED sessions
           ELSE IF IngestionPending(session_id)
           THEN \* the HTTPException of line 836 is caught at line 895
                Answer(500, <<>>, 0, <<>>) /\ UNCHANGED sessions
           ELSE LET retrieved_context == RetrievedContext(session_id, r1)
                    retr == ContextCalls(session_id)
                    days == map_duration_to_days(duration)
                    prompt == PlanPrompt(days, retrieved_context, FALSE)
                IN  IF days = None
                    THEN /\ Answer(400, unsupported_duration_response, retr, <<>>)
                         /\ UNCHANGED sessions
                    ELSE IF Raised(llm)
                    THEN Answer(500, <<>>, retr, <<prompt>>) /\ UNCHANGED sessions
                    ELSE LET diet_plan == format_response_of[llm.text]
                         IN  /\ sessions' = [sessions EXCEPT ![session_id].diet_plans =
                                                Append(@, [duration |-> duration,
                                                           plan |-> diet_plan])]
                             /\ Answer(200, diet_plan, retr, <<prompt>>)
    /\ Tick

(***************************************************************************)
(* get_ingest_status, get_chat_history, submit_feedback                    *)
(***************************************************************************)
get_ingest_status(session_id) ==
    /\ Ready
    /\ UNCHANGED <<sessions, ingest_tasks, background, run, disk, conns>>
    /\ last' = IF session_id \notin DOMAIN ingest_tasks
               THEN Outcome("get_ingest_status", session_id, <<>>, "", 404, <<>>, <<>>, 0, <<>>)
               ELSE [Outcome("get_ingest_status", session_id, <<>>, "", 200, <<>>, <<>>,
                             0, <<>>)
                     EXCEPT !.ingest = ingest_tasks[session_id]]
    /\ Tick

get_chat_history(session_id) ==
    /\ Ready
    /\ UNCHANGED <<sessions, ingest_tasks, background, run, disk, conns>>
    /\ last' = IF session_id \notin DOMAIN sessions
               THEN Outcome("get_chat_history", session_id, <<>>, "", 404, <<>>, <<>>, 0, <<>>)
               ELSE [Outcome("get_chat_history", session_id, <<>>, "", 200, <<>>, <<>>,
                             0, <<>>)
                     EXCEPT !.chat_history = sessions[session_id].chat_history]
    /\ Tick

\* the feedback a client may send
Feedbacks == {"Great service!"}

submit_feedback(session_id, feedback) ==
    /\ Ready
    /\ UNCHANGED <<ingest_tasks, background, run, disk, conns>>
    /\ IF session_id \notin DOMAIN sessions
       THEN /\ last' = Outcome("submit_feedback", session_id, <<>>, "", 404, <<>>, <<>>,
                               0, <<>>)
            /\ UNCHANGED sessions
       ELSE /\ sessions' = [sessions EXCEPT ![session_id].feedback = Append(@, feedback)]
            /\ last' = Outcome("submit_feedback", session_id, <<>>, "", 200, <<>>, <<>>,
                               0, <<>>)
    /\ Tick

(***************************************************************************)
(* upload_additional_files                                                 *)
(***************************************************************************)
upload_additional_files(session_id, files) ==
    /\ Ready
    /\ UNCHANGED <<ingest_tasks, background, run, conns>>
    /\ IF session_id \notin DOMAIN sessions
       THEN /\ last' = [Outcome("upload_additional_files", session_id, <<>>, "", 404,
                                <<>>, <<>>, 0, <<>>)
                           EXCEPT !.files = files]
            /\ UNCHANGED <<sessions, disk>>
       ELSE LET file_paths == SavedPaths(files)
            IN  /\ disk' = [disk EXCEPT ![session_id].uploads = @ \cup Range(file_paths)]
                /\ sessions' = [sessions EXCEPT ![session_id].files = @ \o file_paths]
                \* the task is added to a BackgroundTasks object made in the
                \* handler, which nothing ever runs
                \* line 802: "Uploaded {len(file_paths)} files" and the names
                /\ last' = [Outcome("upload_additional_files", session_id, <<>>, "", 200,
                                    <<>>, <<>>, 0, <<>>)
                               EXCEPT !.files = files,
                                      !.body = Body("", "Uploaded " \o ToString(Len(file_paths))
                                                        \o " files",
                                                    [j \in DOMAIN file_paths |->
                                                        file_paths[j].base \o file_paths[j].ext])]
    /\ Tick

(***************************************************************************)
(* websocket_chat: one coroutine per connection; it is suspended while it  *)
(* waits for a frame and at every send_json and sleep                      *)
(* The emoji U+1F44B is written as the one-element string "U+1F44B".       *)
(***************************************************************************)
\* a faulty list of exit words that lacks "bye"
ExitWordsWithoutBye == { <<"e","x","i","t">>, <<"q","u","i","t">>, <<"g","o","o","d","b","y","e">> }

\* line 589
ExitWords == { <<"e","x","i","t">>, <<"q","u","i","t">>, <<"b","y","e">>, <<"g","o","o","d","b","y","e">> }

FarewellText ==
    
        <<"T","h","a","n","k"," ","y","o","u"," ","f","o","r"," ","u","s","i","n","g"," ","o",
        "u","r"," ","d","i","e","t"," ","c","o","n","s","u","l","t","a","t","i","o","n"," ","s",
        "e","r","v","i","c","e","."," ","T","a","k","e"," ","c","a","r","e","!"," ">> \o <<"U+1F44B">>
    \o 
        <<"\n","\n","Y","o","u"," ","c","a","n"," ","c","l","o","s","e"," ","t","h","i","s"," ",
        "c","h","a","t"," ","w","i","n","d","o","w"," ","n","o","w",".">>

IngestionPendingText == 
        <<"F","i","l","e"," ","i","n","g","e","s","t","i","o","n"," ","n","o","t"," ","c","o",
        "m","p","l","e","t","e","."," ","P","l","e","a","s","e"," ","w","a","i","t",".">>

ErrorText == 
        <<"E","r","r","o","r"," ","g","e","n","e","r","a","t","i","n","g"," ","r","e","s","p",
        "o","n","s","e","."," ","P","l","e","a","s","e"," ","t","r","y"," ","a","g","a","i","n",
        ".">>

chunk_size == 5

NotSpace(c) == ~IsSpace(c)

\* str.split(): the maximal runs of characters that are not blanks
Words(s) ==
    LET starts == {i \in DOMAIN s : ~IsSpace(s[i]) /\ (i = 1 \/ IsSpace(s[i - 1]))}
        start(j) == CHOOSE i \in starts : Cardinality({x \in starts : x <= i}) = j
    IN  [j \in 1..Cardinality(starts) |-> SubSeq(s, start(j), RunEnd(s, start(j), NotSpace))]

\* the longest completer output streamed on its own, in words
MaxWords == 12

StreamLetters == <<"a", "b", "c", "d", "e", "f", "g", "h", "i", "j", "k", "l">>

\* the j-th word of a streamed output: one letter, doubled for an even j
StreamWord(j) ==
    LET letter == StreamLetters[((j - 1) % Len(StreamLetters)) + 1]
    IN  IF j % 2 = 0 THEN <<letter, letter>> ELSE <<letter>>

StreamSeparators == {<<" ">>, <<" ", " ">>, <<"\n">>, <<"\t", " ">>}

RECURSIVE StreamOutput(_, _, _)
\* n words with sep between them, pad before and behind
StreamOutput(n, sep, pad) ==
    IF n = 0 THEN pad
    ELSE IF n = 1 THEN pad \o StreamWord(1) \o pad
    ELSE LET shorter == StreamOutput(n - 1, sep, <<>>)
         IN  pad \o shorter \o sep \o StreamWord(n) \o pad

\* completer outputs of 0..MaxWords words
StreamOutputs ==
    {StreamOutput(n, sep, pad) :
        n \in 0..MaxWords, sep \in StreamSeparators, pad \in {<<>>, <<" ">>}}

\* the response texts streamed: format_response applied to the output
StreamTexts == {format_response(t) : t \in StreamOutputs}

words_of == [t \in Range(format_response_of) \cup StreamTexts |-> Words(t)]

\* " ".join(words)
RECURSIVE JoinWords(_)
JoinWords(words) ==
    IF words = <<>> THEN <<>>
    ELSE IF Len(words) = 1 THEN words[1]
    ELSE words[1] \o <<" ">> \o JoinWords(Tail(words))

\* a faulty TokenContent that ends every chunk with a space
TokenContentSpaced(words, i) ==
    LET upto == IF i + chunk_size < Len(words) THEN i + chunk_size ELSE Len(words)
    IN  JoinWords(SubSeq(words, i + 1, upto)) \o <<" ">>

\* lines 702-706: the content of the token frame for words[i:i+chunk_size]
\* (i counts from 0)
TokenContent(words, i) ==
    LET upto == IF i + chunk_size < Len(words) THEN i + chunk_size ELSE Len(words)
    IN  JoinWords(SubSeq(words, i + 1, upto))
        \o (IF i + chunk_size < Len(words) THEN <<" ">> ELSE <<>>)

Frame(type, text, sources) == [type |-> type, text |-> text, sources |-> sources]

\* websocket.accept(), then close(4004) for a session that does not exist
WsConnect(c, session_id) ==
    /\ LoopFree
    /\ conns[c].state = "none"
    /\ conns' = [conns EXCEPT ![c] =
                    IF session_id \in DOMAIN sessions
                    THEN [NoConn EXCEPT !.state = "open", !.session_id = session_id]
                    ELSE [NoConn EXCEPT !.state = "closed", !.session_id = session_id,
                                        !.close_code = 4004]]
    /\ UNCHANGED <<sessions, ingest_tasks, background, run, disk>>
    /\ Internal

\* lines 583-695: a frame {"type": "message", "message": text} is received and
\* handled up to the first send_json
WsReceive(c, text, r1, llm) ==
    /\ Ready
    /\ conns[c].state = "open"
    /\ conns[c].pc = "recv"
    /\ UNCHANGED <<sessions, ingest_tasks, background, run, disk>>
    /\ LET session_id == conns[c].session_id
           message == strip_of[text]
           Seen(retr, prompts) ==
               last' = Outcome("websocket_chat", session_id, text, "", 0, <<>>, <<>>,
                               retr, prompts)
           Stream(raw_text, retrieved_context) ==
               conns' = [conns EXCEPT ![c].pc = "stream",
                                      ![c].message = message,
                                      ![c].response_text = format_response_of[raw_text],
                                      ![c].i = 0,
                                      ![c].retrieved_context = retrieved_context,
                                      ![c].frames = <<>>,
                                      ![c].sources = <<>>,
                                      ![c].request = clock + 1]
           Abort ==
               \* the completer raises outside the inner try: line 753, close(1011)
               conns' = [conns EXCEPT ![c].state = "closed", ![c].close_code = 1011,
                                      ![c].message = message, ![c].frames = <<>>,
                                      ![c].request = clock + 1]
       IN  IF lower_of[message] \in ExitWords
           THEN /\ conns' = [conns EXCEPT ![c].state = "closed", ![c].close_code = 1000,
                                          ![c].message = message,
                                          ![c].frames = <<Frame("message", FarewellText, <<>>)>>,
                                          ![c].request = clock + 1]
                /\ Seen(0, <<>>)
           ELSE IF IngestionPending(session_id)
           THEN /\ conns' = [conns EXCEPT ![c].message = message,
                                          ![c].frames =
                                              <<Frame("error", IngestionPendingText, <<>>)>>,
                                          ![c].request = clock + 1]
                /\ Seen(0, <<>>)
           ELSE IF ~is_diet_related_question_of[message]
           THEN \* retrieved_context keeps what an earlier message of the
                \* connection left in it
                /\ Stream(format_general_response, conns[c].retrieved_context)
                /\ Seen(0, <<>>)
           ELSE LET retrieved_context == RetrievedContext(session_id, r1)
                    retr == ContextCalls(session_id)
                    ocr_data == OcrData(session_id)
                    requested_days == parse_days_from_text_of[message]
                IN  IF requested_days # None
                    THEN IF requested_days \in supported_days
                         THEN LET prompt == PlanPrompt(requested_days, retrieved_context,
                                                       ocr_data)
                              IN  /\ Seen(retr, <<prompt>>)
                                  /\ IF Raised(llm) THEN Abort
                                     ELSE Stream(llm.text, Bound(retrieved_context))
                         ELSE /\ Seen(retr, <<>>)
                              /\ Stream(unsupported_duration_response,
                                        Bound(retrieved_context))
                    ELSE LET prompt == GeneralPrompt(message, retrieved_context, ocr_data)
                         IN  /\ Seen(retr, <<prompt>>)
                             /\ IF Raised(llm) THEN Abort
                                ELSE Stream(llm.text, Bound(retrieved_context))
    /\ Tick

\* lines 701-707: one token frame
WsSendToken(c) ==
    /\ LoopFree
    /\ conns[c].state = "open"
    /\ conns[c].pc = "stream"
    /\ LET words == words_of[conns[c].response_text]
       IN  /\ conns[c].i < Len(words)
           /\ conns' = [conns EXCEPT
                           ![c].frames = Append(@, Frame("token",
                                                         TokenContent(words, conns[c].i),
                                                         <<>>)),
                           ![c].i = @ + chunk_size]
    /\ UNCHANGED <<sessions, ingest_tasks, background, run, disk>>
    /\ Internal

\* lines 709-731: the sources and the final frame; reading a retrieved_context
\* that was never assigned raises inside the inner try (lines 744-749)
WsSendFinal(c, r2) ==
    /\ LoopFree
    /\ conns[c].state = "open"
    /\ conns[c].pc = "stream"
    /\ conns[c].i >= Len(words_of[conns[c].response_text])
    /\ IF ~conns[c].retrieved_context.bound
       THEN conns' = [conns EXCEPT ![c].pc = "recv",
                                   ![c].frames = Append(@, Frame("error", ErrorText, <<>>))]
       ELSE LET sources == Sources(conns[c].session_id, conns[c].retrieved_context.hits, r2)
            IN  conns' = [conns EXCEPT
                             ![c].pc = "append",
                             ![c].sources = sources,
                             ![c].frames = Append(@, Frame("message",
                                                           conns[c].response_text, sources))]
    /\ UNCHANGED <<sessions, ingest_tasks, background, run, disk>>
    /\ Internal

\* a faulty WsAppend whose chat history is one list shared by the sessions
WsAppendShared(c) ==
    /\ LoopFree
    /\ conns[c].state = "open"
    /\ conns[c].pc = "append"
    /\ sessions' = [s \in DOMAIN sessions |->
                       [sessions[s] EXCEPT !.chat_history =
                           AppendEntry(@, ChatEntry(conns[c].request, conns[c].message,
                                                    conns[c].response_text,
                                                    conns[c].sources))]]
    /\ conns' = [conns EXCEPT ![c].pc = "recv"]
    /\ UNCHANGED <<ingest_tasks, background, run, disk>>
    /\ Internal

\* lines 733-742: the coroutine resumes after the final send_json
WsAppend(c) ==
    /\ LoopFree
    /\ conns[c].state = "open"
    /\ conns[c].pc = "append"
    /\ sessions' = [sessions EXCEPT ![conns[c].session_id].chat_history =
                       AppendEntry(@, ChatEntry(conns[c].request, conns[c].message,
                                                conns[c].response_text, conns[c].sources))]
    /\ conns' = [conns EXCEPT ![c].pc = "recv"]
    /\ UNCHANGED <<ingest_tasks, background, run, disk>>
    /\ Internal

\* a faulty disconnect that still stores the interrupted exchange
WsDisconnectStoring(c) ==
    /\ LoopFree
    /\ conns[c].state = "open"
    /\ conns[c].pc = "stream"
    /\ conns' = [conns EXCEPT ![c].state = "closed", ![c].close_code = 1006]
    /\ sessions' = [sessions EXCEPT ![conns[c].session_id].chat_history =
                       AppendEntry(@, ChatEntry(conns[c].request, conns[c].message,
                                                conns[c].response_text, conns[c].sources))]
    /\ UNCHANGED <<ingest_tasks, background, run, disk>>
    /\ Internal

\* the client goes away while a response is streamed: the next send_json
\* raises, and so does the send_json of the error frame (lines 744-758)
WsDisconnect(c) ==
    /\ LoopFree
    /\ conns[c].state = "open"
    /\ conns[c].pc = "stream"
    /\ conns' = [conns EXCEPT ![c].state = "closed", ![c].close_code = 1006]
    /\ UNCHANGED <<sessions, ingest_tasks, background, run, disk>>
    /\ Internal

(***************************************************************************)
(* The system                                                              *)
(***************************************************************************)
Next ==
    \/ \E mc \in MedicalConditions, files \in UploadLists : create_chat_session(mc, files)
    \/ \E task \in background : IngestStart(task)
    \/ IngestProgress
    \/ \E ok \in BOOLEAN : IngestProcess(ok)
    \/ IngestComplete
    \/ \E ok \in BOOLEAN : IngestSaveMeta(ok)
    \/ \E s \in DOMAIN sessions \cup {UnknownSession}, m \in Messages,
          llm \in CompleterOutcomes :
          \E r1 \in RetrieverCalls(s), r2 \in RetrieverCalls(s) :
              send_message(s, m, r1, llm, r2)
    \/ \E s \in DOMAIN sessions \cup {UnknownSession}, d \in DurationKeys,
          llm \in CompleterOutcomes :
          \E r1 \in RetrieverCalls(s) : generate_diet_plan(s, d, r1, llm)
    \/ \E s \in DOMAIN sessions \cup {UnknownSession}, files \in UploadLists :
          upload_additional_files(s, files)
    \/ \E s \in DOMAIN sessions \cup {UnknownSession} : get_ingest_status(s)
    \/ \E s \in DOMAIN sessions \cup {UnknownSession} : get_chat_history(s)
    \/ \E s \in DOMAIN sessions \cup {UnknownSession}, f \in Feedbacks :
          submit_feedback(s, f)
    \/ \E c \in 1..MaxConnections, s \in DOMAIN sessions \cup {UnknownSession} :
          WsConnect(c, s)
    \/ \E c \in 1..MaxConnections, m \in Messages, llm \in CompleterOutcomes :
          \E r1 \in RetrieverCalls(conns[c].session_id) : WsReceive(c, m, r1, llm)
    \/ \E c \in 1..MaxConnections : WsSendToken(c)
    \/ \E c \in 1..MaxConnections :
          \E r2 \in RetrieverCalls(conns[c].session_id) : WsSendFinal(c, r2)
    \/ \E c \in 1..MaxConnections : WsAppend(c)
    \/ \E c \in 1..MaxConnections : WsDisconnect(c)

Spec == Init /\ [][Next]_vars

\* a step of a running ingest_files_background
IngestStep ==
    \/ IngestProgress
    \/ \E ok \in BOOLEAN : IngestProcess(ok)
    \/ IngestComplete
    \/ \E ok \in BOOLEAN : IngestSaveMeta(ok)

\* the event loop runs a coroutine that has started up to its end: each call
\* it makes returns or raises
FairSpec == Spec /\ WF_vars(IngestStep)

(***************************************************************************)
(* ingest_files_background on its own: a session has just been created     *)
(* with up to MaxRunFiles files, and its run is followed to its end        *)
(***************************************************************************)
MaxRunFiles == 50

\* n uploaded files, PDF reports and scanned images in turn
RunFiles(n) ==
    [j \in 1..n |-> IF j % 2 = 1
                    THEN [base |-> "report" \o ToString(j), ext |-> ".pdf",
                          content_type |-> "application/pdf", size |-> 1]
                    ELSE [base |-> "scan" \o ToString(j), ext |-> ".png",
                          content_type |-> "image/png", size |-> 1]]

\* their saved paths
RunPaths(n) == SavedPaths(RunFiles(n))

\* the server after its first request, a create_chat_session with n files
InitRun ==
    \E n \in 1..MaxRunFiles :
        /\ sessions = Put(<<>>, 1, [user_data |-> "profile", files |-> RunPaths(n),
                                   chat_history |-> <<>>, diet_plans |-> <<>>,
                                   feedback |-> <<>>])
        /\ ingest_tasks = Put(<<>>, 1, InitialIngestStatus(RunPaths(n)))
        /\ background = InitialTasks(1, RunPaths(n), "profile")
        /\ run = IdleRun
        /\ disk = Put(<<>>, 1, [uploads |-> Range(RunPaths(n)), index |-> {}, ocr |-> {},
                               meta |-> FALSE])
        /\ conns = [c \in 1..MaxConnections |-> NoConn]
        /\ last = [Outcome("create_chat_session", 1, <<>>, "", 200, <<>>, <<>>, 0, <<>>)
                      EXCEPT !.files = RunFiles(n), !.body = Body("created", "", <<>>)]
        /\ clock = 1
        /\ phrase = <<>>
        /\ parsed = FALSE
        /\ parse_result = None
        /\ raw_output = <<>>
        /\ formatted = NotFormatted

NextRun ==
    \/ \E task \in background : IngestStart(task)
    \/ IngestProgress
    \/ \E ok \in BOOLEAN : IngestProcess(ok)
    \/ IngestComplete
    \/ \E ok \in BOOLEAN : IngestSaveMeta(ok)

SpecRun == InitRun /\ [][NextRun]_vars

(***************************************************************************)
(* The chat of one session: a session has just been created without files, *)
(* and MaxRequests further requests are followed                           *)
(***************************************************************************)
\* the server after a create_chat_session without files
InitChat ==
    /\ sessions = Put(<<>>, 1, [user_data |-> "profile", files |-> <<>>,
                               chat_history |-> <<>>, diet_plans |-> <<>>,
                               feedback |-> <<>>])
    /\ ingest_tasks = Put(<<>>, 1, InitialIngestStatus(<<>>))
    /\ background = InitialTasks(1, <<>>, "profile")
    /\ run = IdleRun
    /\ disk = Put(<<>>, 1, [uploads |-> {}, index |-> {}, ocr |-> {}, meta |-> FALSE])
    /\ conns = [c \in 1..MaxConnections |-> NoConn]
    /\ last = [Outcome("create_chat_session", 1, <<>>, "", 200, <<>>, <<>>, 0, <<>>)
                  EXCEPT !.body = Body("created", "", <<>>)]
    /\ clock = 0
    /\ phrase = <<>>
    /\ parsed = FALSE
    /\ parse_result = None
    /\ raw_output = <<>>
    /\ formatted = NotFormatted

NextChat ==
    \/ \E s \in DOMAIN sessions \cup {UnknownSession}, m \in Messages,
          llm \in CompleterOutcomes :
          \E r1 \in RetrieverCalls(s), r2 \in RetrieverCalls(s) :
              send_message(s, m, r1, llm, r2)
    \/ \E s \in DOMAIN sessions \cup {UnknownSession}, d \in DurationKeys,
          llm \in CompleterOutcomes :
          \E r1 \in RetrieverCalls(s) : generate_diet_plan(s, d, r1, llm)
    \/ \E s \in DOMAIN sessions \cup {UnknownSession}, files \in UploadLists :
          upload_additional_files(s, files)
    \/ \E s \in DOMAIN sessions \cup {UnknownSession} : get_ingest_status(s)
    \/ \E s \in DOMAIN sessions \cup {UnknownSession} : get_chat_history(s)
    \/ \E s \in DOMAIN sessions \cup {UnknownSession}, f \in Feedbacks :
          submit_feedback(s, f)
    \/ \E c \in 1..MaxConnections, s \in DOMAIN sessions \cup {UnknownSession} :
          WsConnect(c, s)
    \/ \E c \in 1..MaxConnections, m \in Messages, llm \in CompleterOutcomes :
          \E r1 \in RetrieverCalls(conns[c].session_id) : WsReceive(c, m, r1, llm)
    \/ \E c \in 1..MaxConnections : WsSendToken(c)
    \/ \E c \in 1..MaxConnections :
          \E r2 \in RetrieverCalls(conns[c].session_id) : WsSendFinal(c, r2)
    \/ \E c \in 1..MaxConnections : WsAppend(c)
    \/ \E c \in 1..MaxConnections : WsDisconnect(c)

SpecChat == InitChat /\ [][NextChat]_vars

(***************************************************************************)
(* Plan requests: a session has just been created without files, and       *)
(* messages that ask for a plan of a supported length are sent to it       *)
(***************************************************************************)
NextPlan ==
    \/ \E s \in DOMAIN sessions \cup {UnknownSession}, m \in PlanMessages,
          llm \in CompleterOutcomes :
          \E r1 \in RetrieverCalls(s), r2 \in RetrieverCalls(s) :
              send_message(s, m, r1, llm, r2)
    \/ \E c \in 1..MaxConnections, s \in DOMAIN sessions \cup {UnknownSession} :
          WsConnect(c, s)
    \/ \E c \in 1..MaxConnections, m \in PlanMessages, llm \in CompleterOutcomes :
          \E r1 \in RetrieverCalls(conns[c].session_id) : WsReceive(c, m, r1, llm)
    \/ \E c \in 1..MaxConnections : WsSendToken(c)
    \/ \E c \in 1..MaxConnections :
          \E r2 \in RetrieverCalls(conns[c].session_id) : WsSendFinal(c, r2)
    \/ \E c \in 1..MaxConnections : WsAppend(c)

SpecPlan == InitChat /\ [][NextPlan]_vars

(***************************************************************************)
(* parse_days_from_text on its own: a phrase is drawn, and the function is *)
(* applied to it                                                           *)
(***************************************************************************)
PhrasePrefixes == { <<>>, <<"P","l","a","n"," ","f","o","r"," ">>, <<"2"," ","w","e","e","k","s"," ","o","r"," ">>, <<"1"," ","m","o","n","t","h",","," ","t","h","e","n"," ">> }

PhraseNumbers == { <<"1">>, <<"2">>, <<"3">>, <<"7">>, <<"1","0">>, <<"1","4">>, <<"2","1">>, <<"3","0">>, <<"4","5">> }

PhraseGaps == { <<>>, <<" ">>, <<"-">> }

PhraseUnits ==
    { <<"d","a","y">>, <<"d","a","y","s">>, <<"D","a","y","s">>, <<"w","e","e","k">>, <<"w","e","e","k","s">>, <<"m","o","n","t","h">>, <<"m","o","n","t","h","s">>, <<"d">> }

Phrases ==
    {a \o n \o g \o u : a \in PhrasePrefixes, n \in PhraseNumbers, g \in PhraseGaps,
                        u \in PhraseUnits}

InitText ==
    /\ Started
    /\ phrase \in Phrases
    /\ parsed = FALSE
    /\ parse_result = None
    /\ raw_output = <<>>
    /\ formatted = NotFormatted

ParseDays ==
    /\ ~parsed
    /\ parse_result' = parse_days_from_text(phrase)
    /\ parsed' = TRUE
    /\ UNCHANGED <<sessions, ingest_tasks, background, run, disk, conns, last, clock, phrase,
                   raw_output, formatted>>

NextText == ParseDays

SpecText == InitText /\ [][NextText]_vars

(***************************************************************************)
(* format_response on its own: a text is drawn, and the function is        *)
(* applied to it                                                           *)
(***************************************************************************)
MaxPieces == 3

FormatPieces ==
    { <<"*","*","*">>, <<"*","*","*","*">>, <<"a">>, <<"#","#","#","#">>, <<"#">>, <<"\n">>, <<"\n", "\n", "\n">>, <<" ">>,
      <<"*"," ">>, <<"U+2022", " ">>, <<"U+00B7", " ">> }

RECURSIVE Concat(_)
Concat(pieces) == IF pieces = <<>> THEN <<>> ELSE Head(pieces) \o Concat(Tail(pieces))

\* the texts made of MaxPieces pieces at most
FormatInputs == {Concat(q) : q \in SeqsUpTo(FormatPieces, MaxPieces)}

InitFormat ==
    /\ Started
    /\ phrase = <<>>
    /\ parsed = FALSE
    /\ parse_result = None
    /\ raw_output \in FormatInputs
    /\ formatted = NotFormatted

FormatResponse ==
    /\ formatted = NotFormatted
    /\ formatted' = [applied |-> TRUE, text |-> format_response(raw_output)]
    /\ UNCHANGED <<sessions, ingest_tasks, background, run, disk, conns, last, clock,
                   phrase, parsed, parse_result, raw_output>>

NextFormat == FormatResponse

SpecFormat == InitFormat /\ [][NextFormat]_vars

(***************************************************************************)
(* the streaming loop on its own: a connection of a session without files  *)
(* has received a message, the completer has answered, and the response    *)
(* is streamed to its end                                                  *)
(***************************************************************************)
InitStream ==
    /\ sessions = Put(<<>>, 1, [user_data |-> "profile", files |-> <<>>,
                               chat_history |-> <<>>, diet_plans |-> <<>>,
                               feedback |-> <<>>])
    /\ ingest_tasks = Put(<<>>, 1, InitialIngestStatus(<<>>))
    /\ background = InitialTasks(1, <<>>, "profile")
    /\ run = IdleRun
    /\ disk = Put(<<>>, 1, [uploads |-> {}, index |-> {}, ocr |-> {}, meta |-> FALSE])
    /\ \E t \in StreamOutputs :
          conns = [c \in 1..MaxConnections |->
                      IF c = 1
                      THEN [NoConn EXCEPT !.state = "open", !.session_id = 1,
                                          !.pc = "stream",
                                          !.message = strip_of[Plan14Message],
                                          !.response_text = format_response(t),
                                          !.retrieved_context = Bound(<<>>),
                                          !.request = 1]
                      ELSE NoConn]
    /\ last = NoRequest
    /\ clock = 1
    /\ phrase = <<>>
    /\ parsed = FALSE
    /\ parse_result = None
    /\ raw_output = <<>>
    /\ formatted = NotFormatted

NextStream ==
    \/ \E c \in 1..MaxConnections : WsSendToken(c)
    \/ \E c \in 1..MaxConnections :
          \E r2 \in RetrieverCalls(conns[c].session_id) : WsSendFinal(c, r2)
    \/ \E c \in 1..MaxConnections : WsAppend(c)

SpecStream == InitStream /\ [][NextStream]_vars

(***************************************************************************)
(* two sessions side by side: one created without files, one created with  *)
(* a file whose ingestion is queued; the handlers and the ingestion run     *)
(* follow                                                                   *)
(***************************************************************************)
InitPair ==
    /\ sessions = Put(Put(<<>>, 1, [user_data |-> "profile", files |-> <<>>,
                                   chat_history |-> <<>>, diet_plans |-> <<>>,
                                   feedback |-> <<>>]),
                      2, [user_data |-> "profile", files |-> RunPaths(1),
                          chat_history |-> <<>>, diet_plans |-> <<>>,
                          feedback |-> <<>>])
    /\ ingest_tasks = Put(Put(<<>>, 1, InitialIngestStatus(<<>>)),
                          2, InitialIngestStatus(RunPaths(1)))
    /\ background = InitialTasks(1, <<>>, "profile") \cup InitialTasks(2, RunPaths(1), "profile")
    /\ run = IdleRun
    /\ disk = Put(Put(<<>>, 1, [uploads |-> {}, index |-> {}, ocr |-> {}, meta |-> FALSE]),
                  2, [uploads |-> Range(RunPaths(1)), index |-> {}, ocr |-> {},
                      meta |-> FALSE])
    /\ conns = [c \in 1..MaxConnections |-> NoConn]
    /\ last = [Outcome("create_chat_session", 2, <<>>, "", 200, <<>>, <<>>, 0, <<>>)
                  EXCEPT !.files = RunFiles(1), !.body = Body("created", "", <<>>)]
    /\ clock = 0
    /\ phrase = <<>>
    /\ parsed = FALSE
    /\ parse_result = None
    /\ raw_output = <<>>
    /\ formatted = NotFormatted

\* the messages sent to the two sessions: one out of the domain, one that
\* asks for a plan
PairMessages == {HelloMessage, Plan14Message}

NextPair ==
    \/ \E task \in background : IngestStart(task)
    \/ IngestProgress
    \/ \E ok \in BOOLEAN : IngestProcess(ok)
    \/ IngestComplete
    \/ \E ok \in BOOLEAN : IngestSaveMeta(ok)
    \/ \E s \in DOMAIN sessions, m \in PairMessages, llm \in CompleterOutcomes :
          \E r1 \in RetrieverCalls(s), r2 \in RetrieverCalls(s) :
              send_message(s, m, r1, llm, r2)
    \/ \E s \in DOMAIN sessions, llm \in CompleterOutcomes :
          \E r1 \in RetrieverCalls(s) : generate_diet_plan(s, "14_days", r1, llm)
    \/ \E s \in DOMAIN sessions, files \in SeqsUpTo(UploadFiles, 1) :
          upload_additional_files(s, files)
    \/ \E s \in DOMAIN sessions, f \in Feedbacks : submit_feedback(s, f)
    \/ \E c \in 1..MaxConnections, s \in DOMAIN sessions : WsConnect(c, s)
    \/ \E c \in 1..MaxConnections, m \in PairMessages, llm \in CompleterOutcomes :
          \E r1 \in RetrieverCalls(conns[c].session_id) : WsReceive(c, m, r1, llm)
    \/ \E c \in 1..MaxConnections : WsSendToken(c)
    \/ \E c \in 1..MaxConnections :
          \E r2 \in RetrieverCalls(conns[c].session_id) : WsSendFinal(c, r2)
    \/ \E c \in 1..MaxConnections : WsAppend(c)

SpecPair == InitPair /\ [][NextPair]_vars

(***************************************************************************)
(* Properties                                                              *)
(***************************************************************************)
\* the session has an entry in ingest_tasks whose status is not completed
NotCompleted(s) ==
    /\ s \in DOMAIN ingest_tasks
    /\ ingest_tasks[s].status \in {"queued", "in_progress", "failed"}

\* the session exists and its ingestion status is completed
Answerable(s) ==
    /\ s \in DOMAIN sessions
    /\ ingest_tasks[s].status = "completed"

\* C1: a message handled for a session whose ingestion status is queued,
\* in_progress or failed, by the HTTP message endpoint, the WebSocket loop or
\* the plan endpoint, is rejected: no call of the retriever, no call of the
\* completer, no success response, no streamed exchange, and the session's
\* chat history and diet plans stay as they are.
C1_PendingRejected ==
    [][ (/\ last'.op \in {"send_message", "websocket_chat", "generate_diet_plan"}
         /\ NotCompleted(last'.session_id))
        => /\ last'.retr = 0
           /\ last'.prompts = <<>>
           /\ last'.status_code # 200
           /\ sessions' = sessions
           /\ \A c \in DOMAIN conns : conns'[c] = conns[c] \/ conns'[c].pc = "recv"
      ]_vars

\* a plan request in a WebSocket frame has been handled for a session whose
\* ingestion failed
C1_Witness ==
    /\ last.op = "websocket_chat"
    /\ last.message = Plan14Message
    /\ last.session_id \in DOMAIN ingest_tasks
    /\ ingest_tasks[last.session_id].status = "failed"
    /\ \E c \in DOMAIN conns :
          /\ conns[c].state = "open"
          /\ conns[c].frames = <<Frame("error", IngestionPendingText, <<>>)>>

\* C2: the ingestion status of a session moves only from queued to
\* in_progress and from in_progress to completed or failed; completed and
\* failed are final.
C2_StatusPath ==
    [][ \A s \in DOMAIN ingest_tasks :
          ingest_tasks'[s].status # ingest_tasks[s].status
          => <<ingest_tasks[s].status, ingest_tasks'[s].status>> \in
                {<<"queued", "in_progress">>, <<"in_progress", "completed">>,
                 <<"in_progress", "failed">>}
      ]_vars

\* C3 as stated: every percent written to a session's ingestion status is at
\* least the percent written before it, the write of the failure included.
C3_PercentNeverDecreases ==
    [][ \A s \in DOMAIN ingest_tasks :
          (/\ ingest_tasks'[s] # ingest_tasks[s]
           /\ ingest_tasks[s].percent # None
           /\ ingest_tasks'[s].percent # None)
          => ingest_tasks'[s].percent >= ingest_tasks[s].percent
      ]_vars

\* C3: the percents written to a session's ingestion status while its files
\* are processed and when the run completes never decrease; the write of a
\* failure sets the percent to 0, whatever it was.
C3_PercentUntilFailure ==
    [][ \A s \in DOMAIN ingest_tasks :
          ingest_tasks'[s] # ingest_tasks[s]
          => IF ingest_tasks'[s].status = "failed"
             THEN ingest_tasks'[s].percent = 0
             ELSE (/\ ingest_tasks[s].percent # None
                   /\ ingest_tasks'[s].percent # None)
                  => ingest_tasks'[s].percent >= ingest_tasks[s].percent
      ]_vars

\* a run of two files has failed on its second file: the percents written
\* were 0, 50 and then 0
C3_Witness ==
    \E s \in DOMAIN ingest_tasks :
        /\ ingest_tasks[s].status = "failed"
        /\ ingest_tasks[s].percent = 0
        /\ ingest_tasks[s].detail.err = "extract_and_parse"
        /\ Len(sessions[s].files) = 2
        /\ disk[s].index # {}

\* C4: right after a session is created, its ingestion status is completed
\* and no ingestion run is scheduled for it when no file was accepted, and
\* its status is queued with exactly one run scheduled for it otherwise.
C4_InitialStatus ==
    (last.op = "create_chat_session" /\ last.status_code = 200)
    => LET s == last.session_id
           scheduled == {t \in background : t.session_id = s}
       IN  IF Len(sessions[s].files) = 0
           THEN /\ ingest_tasks[s].status = "completed"
                /\ scheduled = {}
                /\ run.session_id # s
           ELSE /\ ingest_tasks[s].status = "queued"
                /\ Cardinality(scheduled) = 1
                /\ run.session_id # s

\* a session without files was created, then a session with files
C4_Witness ==
    /\ last.op = "create_chat_session"
    /\ last.session_id = 2
    /\ sessions[1].files = <<>>
    /\ ingest_tasks[1].status = "completed"
    /\ sessions[2].files # <<>>
    /\ ingest_tasks[2].status = "queued"

\* C5: an HTTP message the classifier judges out of domain, sent to a session
\* whose ingestion is completed, gets the canned redirect with no sources,
\* calls neither the retriever nor the completer, and appends one chat entry
\* with no sources.
C5_OutOfDomainRedirect ==
    [][ (/\ last'.op = "send_message"
         /\ Answerable(last'.session_id)
         /\ ~is_diet_related_question_of[last'.message])
        => LET s == last'.session_id
               n == Len(sessions[s].chat_history)
           IN  /\ last'.status_code = 200
               /\ last'.response = format_general_response
               /\ last'.sources = <<>>
               /\ last'.retr = 0
               /\ last'.prompts = <<>>
               /\ Len(sessions'[s].chat_history) = n + 1
               /\ sessions'[s].chat_history[n + 1].sources = <<>>
      ]_vars

\* C6: is_diet_related_question is false for "What's the weather today?", so
\* a session that can be answered returns the canned redirect for it and
\* calls neither the retriever nor the completer.
C6_WeatherOutOfDomain ==
    (/\ last.op = "send_message"
     /\ last.message = WeatherMessage
     /\ Answerable(last.session_id))
    => /\ ~is_diet_related_question_of[last.message]
       /\ last.response = format_general_response
       /\ last.retr = 0
       /\ last.prompts = <<>>

\* the message asks, in domain, for a number of days that is none of
\* 7, 10, 14, 21, 30
C7_Unsupported(m) ==
    /\ is_diet_related_question_of[m]
    /\ parse_days_from_text_of[m] \notin {None, 7, 10, 14, 21, 30}

\* C7: an in-domain message whose parsed day count is none of 7, 10, 14, 21,
\* 30 is answered with the canned unsupported-duration text, on the HTTP
\* endpoint and on the WebSocket; the completer is not called (so with no
\* other length either) and the session's diet plans stay as they are.
C7_UnsupportedDuration ==
    [][ /\ (/\ last'.op = "send_message"
            /\ Answerable(last'.session_id)
            /\ C7_Unsupported(last'.message))
           => /\ last'.status_code = 200
              /\ last'.response = unsupported_duration_response
              /\ last'.prompts = <<>>
              /\ sessions'[last'.session_id].diet_plans
                    = sessions[last'.session_id].diet_plans
        /\ (/\ last'.op = "websocket_chat"
            /\ Answerable(last'.session_id)
            /\ C7_Unsupported(strip_of[last'.message]))
           => /\ last'.prompts = <<>>
              /\ sessions' = sessions
              /\ \E c \in DOMAIN conns :
                    /\ conns'[c] # conns[c]
                    /\ conns'[c].state = "open"
                    /\ conns'[c].pc = "stream"
                    /\ conns'[c].response_text = unsupported_duration_response
      ]_vars

\* the answer to "meal plan for 5 weeks" has been streamed over a WebSocket
\* and is about to be appended to the history
C7_Witness ==
    \E c \in DOMAIN conns :
        /\ conns[c].pc = "append"
        /\ conns[c].message = Plan5WeeksMessage
        /\ conns[c].response_text = unsupported_duration_response
        /\ conns[c].frames[Len(conns[c].frames)]
              = Frame("message", unsupported_duration_response, <<>>)

\* the matches of (\d+)\s*<unit> in msg: the first and the last position of
\* a whole run of digits that blanks, if any, and then the unit follow
C8_Matches(msg, unit) ==
    {m \in (1..Len(msg)) \X (1..Len(msg)) :
        /\ m[1] <= m[2]
        /\ \A k \in m[1]..m[2] : IsDigit(msg[k])
        /\ m[2] = Len(msg) \/ ~IsDigit(msg[m[2] + 1])
        /\ \E r \in (m[2] + 1)..(Len(msg) + 1) :
              /\ \A k \in (m[2] + 1)..(r - 1) : IsSpace(msg[k])
              /\ OccursAt(msg, unit, r)}

\* the number of the leftmost match
C8_Number(msg, unit) ==
    LET m == CHOOSE x \in C8_Matches(msg, unit) :
                 \A y \in C8_Matches(msg, unit) : x[1] <= y[1]
    IN  ToInt(SubSeq(msg, m[1], m[2]))

\* msg holds the words "1 month": a 1 that no word character precedes,
\* blanks if any, and month that no word character follows
C8_OneMonth(msg) ==
    \E p \in 1..Len(msg), q \in 1..Len(msg) :
        /\ msg[p] = "1"
        /\ p = 1 \/ ~IsWordChar(msg[p - 1])
        /\ p < q
        /\ \A k \in (p + 1)..(q - 1) : IsSpace(msg[k])
        /\ OccursAt(msg, <<"m", "o", "n", "t", "h">>, q)
        /\ q + 5 > Len(msg) \/ ~IsWordChar(msg[q + 5])

\* the three patterns in order
C8_Expected(message) ==
    LET msg == Lower(message)
    IN  IF C8_Matches(msg, <<"d", "a", "y">>) # {}
        THEN C8_Number(msg, <<"d", "a", "y">>)
        ELSE IF C8_Matches(msg, <<"w", "e", "e", "k">>) # {}
        THEN C8_Number(msg, <<"w", "e", "e", "k">>) * 7
        ELSE IF C8_OneMonth(msg) THEN 30
        ELSE None

\* the phrases for the supported lengths
C8_SupportedPhrases ==
    { <<<<"7"," ","d","a","y","s">>, 7>>, <<<<"1"," ","w","e","e","k">>, 7>>, <<<<"1","0"," ","d","a","y","s">>, 10>>, <<<<"1","4"," ","d","a","y","s">>, 14>>,
      <<<<"2"," ","w","e","e","k","s">>, 14>>, <<<<"2","1"," ","d","a","y","s">>, 21>>, <<<<"3"," ","w","e","e","k","s">>, 21>>, <<<<"3","0"," ","d","a","y","s">>, 30>>,
      <<<<"1"," ","m","o","n","t","h">>, 30>> }

\* C8: parse_days_from_text returns the number before "day"/"days" if there
\* is one, else seven times the number before "week"/"weeks" if there is
\* one, else 30 for the words "1 month", else None; and each phrase for 7,
\* 10, 14, 21 or 30 days gives exactly that count.
C8_ParseDays ==
    parsed => /\ parse_result = C8_Expected(phrase)
              /\ \A e \in C8_SupportedPhrases : phrase = e[1] => parse_result = e[2]

\* a phrase with weeks before days has been parsed: the days win
C8_Witness ==
    /\ parsed
    /\ phrase = <<"2"," ","w","e","e","k","s"," ","o","r"," ","1","0"," ","d","a","y","s">>
    /\ parse_result = 10

\* C9: a message with "45 days" or "3 months" makes the duration parser
\* return a value, and a session that can be answered returns the canned
\* unsupported-duration text for it without calling the completer.
C9_LongDurationsRejected ==
    (/\ last.op = "send_message"
     /\ last.message \in {Plan45Message, Plan3MonthsMessage}
     /\ Answerable(last.session_id))
    => /\ parse_days_from_text_of[last.message] # None
       /\ last.status_code = 200
       /\ last.response = unsupported_duration_response
       /\ last.prompts = <<>>

\* the five duration keys and their day counts
C10_Keys ==
    { <<"1_week", 7>>, <<"10_days", 10>>, <<"14_days", 14>>, <<"21_days", 21>>,
      <<"1_month", 30>> }

\* C10: for a session that can be answered, the plan endpoint takes the keys
\* 1_week, 10_days, 14_days, 21_days and 1_month, asking the completer for a
\* plan of 7, 10, 14, 21 and 30 days and storing the plan it returns under
\* the key; for any other key it answers 400, does not call the completer
\* and leaves the session's diet plans as they are.
C10_PlanDurations ==
    [][ (/\ last'.op = "generate_diet_plan"
         /\ Answerable(last'.session_id))
        => LET s == last'.session_id
               plans == sessions[s].diet_plans
           IN  IF \E k \in C10_Keys : k[1] = last'.duration
               THEN /\ Len(last'.prompts) = 1
                    /\ last'.prompts[1].kind = "plan"
                    /\ <<last'.duration, last'.prompts[1].days>> \in C10_Keys
                    /\ last'.status_code \in {200, 500}
                    /\ last'.status_code = 200
                       => /\ Len(sessions'[s].diet_plans) = Len(plans) + 1
                          /\ sessions'[s].diet_plans[Len(plans) + 1].duration
                                = last'.duration
                    /\ last'.status_code = 500 => sessions' = sessions
               ELSE /\ last'.status_code = 400
                    /\ last'.prompts = <<>>
                    /\ sessions' = sessions
      ]_vars

\* the key "7_days" has been refused for a session that can be answered
C10_Witness ==
    /\ last.op = "generate_diet_plan"
    /\ last.duration = "7_days"
    /\ last.status_code = 400
    /\ Answerable(last.session_id)
    /\ sessions[last.session_id].diet_plans = <<>>

\* C11: a request for a session identifier that was never created is answered
\* with 404 by every endpoint that takes a session identifier (status,
\* message, history, plan, upload, feedback) and changes neither registry.
C11_UnknownSession404 ==
    [][ (/\ last'.op \in {"get_ingest_status", "send_message", "get_chat_history",
                          "generate_diet_plan", "upload_additional_files",
                          "submit_feedback"}
         /\ last'.session_id \notin DOMAIN sessions)
        => /\ last'.status_code = 404
           /\ sessions' = sessions
           /\ ingest_tasks' = ingest_tasks
      ]_vars

\* C12: a message or a plan request refused because the ingestion of the
\* session is not completed is answered with the client error 400.
C12_PendingIs400 ==
    (/\ last.op \in {"send_message", "generate_diet_plan"}
     /\ NotCompleted(last.session_id))
    => last.status_code = 400

\* C13: when the processing of a file of a run raises and files remain after
\* it, the run goes on with the next file (no file blocks another).
C13_NoFileBlocksAnother ==
    [][ (/\ run.pc = "process"
         /\ run.i + 1 < Len(run.file_paths))
        => /\ run'.pc = "loop"
           /\ run'.i = run.i + 1
           /\ run'.session_id = run.session_id
      ]_vars

\* C14: when an error escapes from an ingestion run, the status of the
\* session becomes failed with a detail that carries the error, the run is
\* over, what the run wrote to the session's directory before stays in
\* place, and the status stays failed from then on.
C14_FailedKeepsFiles ==
    [][ \A s \in DOMAIN ingest_tasks :
          /\ (ingest_tasks'[s].status = "failed" /\ ingest_tasks[s].status # "failed")
             => /\ run.session_id = s
                /\ run'.pc = "idle"
                /\ ingest_tasks'[s].detail.msg = "Ingestion failed"
                /\ ingest_tasks'[s].detail.err # ""
                /\ disk' = disk
          /\ ingest_tasks[s].status = "failed" => ingest_tasks'[s] = ingest_tasks[s]
      ]_vars

\* a run has failed after it built the index of one of its files, and the
\* index is still there
C14_Witness ==
    \E s \in DOMAIN ingest_tasks :
        /\ ingest_tasks[s].status = "failed"
        /\ ingest_tasks[s].detail.err \in {"process_pdf_to_faiss", "open"}
        /\ disk[s].index # {}
        /\ run.pc = "idle"

\* C15 (its first half): every ingestion run that has started comes to its
\* end, and no session is then left in_progress.
C15_RunEnds ==
    (run.pc # "idle")
    ~> (/\ run.pc = "idle"
        /\ \A s \in DOMAIN ingest_tasks : ingest_tasks[s].status # "in_progress")

\* C15 (its second half): a run that has processed every one of its files
\* without error ends with the status completed, percent 100 and a detail
\* that names the number of files.
C15_ProcessedEndsCompleted ==
    [][ (/\ run.pc # "idle"
         /\ run'.pc = "idle"
         /\ run.i = Len(run.file_paths))
        => /\ ingest_tasks'[run.session_id].status = "completed"
           /\ ingest_tasks'[run.session_id].percent = 100
           /\ ingest_tasks'[run.session_id].detail
                 = Detail("Successfully processed", 0, Len(run.file_paths), "")
      ]_vars

\* C16: while a run is in progress and run.i of its files are done, the
\* percent recorded for the file being processed is
\* floor(100 * files_done / files_total), a number in 0..99; and a percent
\* of 100 is recorded only with the status completed.
C16_PercentIsFloor ==
    \A s \in DOMAIN ingest_tasks :
        /\ (/\ ingest_tasks[s].status = "in_progress"
            /\ run.session_id = s
            /\ run.pc = "process")
           => /\ ingest_tasks[s].percent = (100 * run.i) \div Len(run.file_paths)
              /\ ingest_tasks[s].percent \in 0..99
        /\ ingest_tasks[s].percent = 100 => ingest_tasks[s].status = "completed"

\* C17: in every session the ChatEntries of the history are in the order in
\* which their requests arrived, whether they came over the HTTP message
\* endpoint or over a WebSocket connection.
C17_HistoryInArrivalOrder ==
    \A s \in DOMAIN sessions :
        \A j, k \in DOMAIN sessions[s].chat_history :
            j < k => sessions[s].chat_history[j].message_id
                        < sessions[s].chat_history[k].message_id

\* C18: the chat history of a session is append-only: every step of every
\* operation (message, streamed exchange, upload, feedback, plan generation,
\* history read) leaves the history it found as a prefix of the history it
\* leaves, entry by entry and field by field, and a history read returns the
\* history as it stands and changes nothing.
C18_AppendOnly ==
    [][ /\ \A s \in DOMAIN sessions :
              /\ s \in DOMAIN sessions'
              /\ Len(sessions'[s].chat_history) >= Len(sessions[s].chat_history)
              /\ SubSeq(sessions'[s].chat_history, 1, Len(sessions[s].chat_history))
                    = sessions[s].chat_history
        /\ (last'.op = "get_chat_history" /\ last'.status_code = 200)
              => /\ last'.chat_history = sessions[last'.session_id].chat_history
                 /\ sessions' = sessions ]_vars

\* a second exchange has been appended behind the first, one of them streamed
C18_Witness ==
    \E s \in DOMAIN sessions :
        /\ Len(sessions[s].chat_history) = 2
        /\ sessions[s].chat_history[1].message_id = 1
        /\ sessions[s].chat_history[2].message_id = 2
        /\ last.op = "send_message"
        /\ last.status_code = 200
        /\ \E c \in 1..MaxConnections : conns[c].request = 1

\* C19: every message sent over the HTTP message endpoint to a known session
\* whose ingestion is completed, the completer not failing, succeeds with a
\* response carrying message_id, response, sources and meta, and appends
\* exactly one ChatEntry to the history of the session, with the message_id,
\* the user text, the response text and the sources of the response; a
\* history read that follows returns the history with that entry.
C19_MessageAnswered ==
    [][ /\ (/\ last'.op = "send_message"
            /\ Answerable(last'.session_id)
            /\ ~(last'.status_code = 500 /\ last'.prompts # <<>>))
           => LET s == last'.session_id
              IN  /\ last'.status_code = 200
                  /\ last'.meta = Meta(s, sessions[s].user_data)
                  /\ sessions'[s].chat_history
                        = Append(sessions[s].chat_history,
                                 ChatEntry(last'.message_id, last'.message,
                                           last'.response, last'.sources))
                  /\ \A j \in DOMAIN sessions[s].chat_history :
                        sessions[s].chat_history[j].message_id # last'.message_id
        /\ (/\ last'.op = "get_chat_history"
            /\ last'.session_id \in DOMAIN sessions)
           => /\ last'.status_code = 200
              /\ last'.chat_history = sessions'[last'.session_id].chat_history ]_vars

\* C20: for each message answered on the streaming channel the frames go out
\* in a fixed order: first ceil(w/5) token frames, w the number of words of
\* the response, each with the next 5 words at most in response order, then
\* exactly one final frame of type "message" with the complete response text
\* and the sources; only after that frame is the ChatEntry appended to the
\* history, and no frame of the exchange follows the final frame.
C20_FrameOrder ==
    [][ \A c \in 1..MaxConnections :
          LET words == words_of[conns[c].response_text]
              tokens == (Len(words) + chunk_size - 1) \div chunk_size
              s == conns[c].session_id
          IN  /\ (/\ conns[c].pc = "stream"
                  /\ conns'[c] # conns[c]
                  /\ conns'[c].state = "open")
                 => /\ sessions' = sessions
                    /\ \/ /\ Len(conns[c].frames) < tokens
                          /\ conns'[c].pc = "stream"
                          /\ conns'[c].frames =
                                Append(conns[c].frames,
                                       Frame("token",
                                             TokenContent(words,
                                                          Len(conns[c].frames) * chunk_size),
                                             <<>>))
                       \/ /\ Len(conns[c].frames) = tokens
                          /\ conns'[c].pc = "append"
                          /\ conns'[c].frames =
                                Append(conns[c].frames,
                                       Frame("message", conns[c].response_text,
                                             conns'[c].sources))
              /\ (/\ conns[c].pc = "append"
                  /\ conns'[c] # conns[c])
                 => /\ conns'[c].pc = "recv"
                    /\ conns'[c].frames = conns[c].frames
                    /\ sessions'[s].chat_history =
                          Append(sessions[s].chat_history,
                                 ChatEntry(conns[c].request, conns[c].message,
                                           conns[c].response_text, conns[c].sources)) ]_vars

\* the exit phrases of the streaming channel
C21_ExitPhrases == { <<"e","x","i","t">>, <<"q","u","i","t">>, <<"b","y","e">>, <<"g","o","o","d","b","y","e">> }

\* C21: a message of the streaming channel that, trimmed and lowercased, is
\* one of exit, quit, bye, goodbye ends the connection gracefully in every
\* ingestion state: exactly one farewell frame is sent and the connection is
\* closed, with no retrieval, no completer call and no change of the
\* sessions or of the ingestion statuses; a closed connection handles no
\* further message.
C21_ExitEndsConnection ==
    [][ \A c \in 1..MaxConnections :
          /\ (/\ last'.op = "websocket_chat"
              /\ conns'[c] # conns[c]
              /\ lower_of[strip_of[last'.message]] \in C21_ExitPhrases)
             => /\ conns'[c].state = "closed"
                /\ conns'[c].close_code = 1000
                /\ conns'[c].frames = <<Frame("message", FarewellText, <<>>)>>
                /\ last'.retr = 0
                /\ last'.prompts = <<>>
                /\ sessions' = sessions
                /\ ingest_tasks' = ingest_tasks
          /\ conns[c].state = "closed" => conns'[c] = conns[c] ]_vars

\* the farewell has been sent on a connection of a session whose ingestion is
\* not completed
C21_Witness ==
    \E c \in 1..MaxConnections :
        /\ conns[c].state = "closed"
        /\ conns[c].close_code = 1000
        /\ conns[c].message = <<"B","y","e">>
        /\ conns[c].frames = <<Frame("message", FarewellText, <<>>)>>
        /\ NotCompleted(conns[c].session_id)

\* C22: a client disconnect while a response is streamed aborts only that
\* delivery: the step leaves the sessions (so every history), the ingestion
\* statuses, the queued and the running ingestion, the files and every other
\* connection as they are, and no ChatEntry is ever appended for the
\* interrupted message.
C22_DisconnectAbortsDelivery ==
    [][ \A c \in 1..MaxConnections :
          /\ (/\ conns[c].state = "open"
              /\ conns'[c].state = "closed"
              /\ conns'[c].close_code = 1006)
             => /\ conns[c].pc = "stream"
                /\ sessions' = sessions
                /\ ingest_tasks' = ingest_tasks
                /\ background' = background
                /\ run' = run
                /\ disk' = disk
                /\ \A d \in 1..MaxConnections \ {c} : conns'[d] = conns[d]
          /\ (/\ conns[c].state = "closed"
              /\ conns[c].close_code = 1006)
             => /\ conns'[c] = conns[c]
                /\ \A j \in DOMAIN sessions'[conns[c].session_id].chat_history :
                      sessions'[conns[c].session_id].chat_history[j].message_id
                         # conns[c].request ]_vars

\* a client has gone away in the middle of a response while the exchange of
\* another connection of the session has been appended to the history
C22_Witness ==
    \E c, d \in 1..MaxConnections :
        /\ c # d
        /\ conns[c].state = "closed"
        /\ conns[c].close_code = 1006
        /\ conns[c].frames # <<>>
        /\ conns[c].i < Len(words_of[conns[c].response_text])
        /\ conns[d].state = "open"
        /\ conns[d].session_id = conns[c].session_id
        /\ \E j \in DOMAIN sessions[conns[d].session_id].chat_history :
              sessions[conns[d].session_id].chat_history[j].message_id = conns[d].request

\* C23: an upload of additional files to an existing session, when at least
\* one file is accepted, is reported as an additional ingestion having
\* started (202, status "additional_ingestion_started") and leaves an
\* ingestion run for exactly the accepted files of the session waiting to be
\* started.
C23_UploadStartsIngestion ==
    [][ (/\ last'.op = "upload_additional_files"
         /\ last'.session_id \in DOMAIN sessions
         /\ SavedPaths(last'.files) # <<>>)
        => /\ last'.status_code = 202
           /\ last'.body.status = "additional_ingestion_started"
           /\ \E task \in background' \ background :
                 /\ task.session_id = last'.session_id
                 /\ task.file_paths = SavedPaths(last'.files) ]_vars

\* C24: a session-creation request with a file whose MIME type is not PDF,
\* JPEG or PNG, or whose size exceeds 25 MB, is rejected with a 400 before
\* anything is stored: no file is written, no session is registered and no
\* ingestion is queued.
C24_InvalidFileRejected ==
    [][ (/\ last'.op = "create_chat_session"
         /\ last'.status_code # 500
         /\ \E j \in DOMAIN last'.files : ~validate_file(last'.files[j]))
        => /\ last'.status_code = 400
           /\ disk' = disk
           /\ sessions' = sessions
           /\ ingest_tasks' = ingest_tasks
           /\ background' = background ]_vars

\* C25: the response to a session creation reports the initial ingestion
\* status of the session: "ingestion_started" when files were queued for
\* ingestion, "session_created" when the session has no file to ingest.
C25_CreationReportsIngestion ==
    (/\ last.op = "create_chat_session"
     /\ last.session_id \in DOMAIN sessions)
    => /\ ingest_tasks[last.session_id].status = "queued"
          => last.body.status = "ingestion_started"
       /\ ingest_tasks[last.session_id].status = "completed"
          => last.body.status = "session_created"
       /\ ingest_tasks[last.session_id].status \in {"queued", "completed"}

\* the HTTP message endpoint handles an in-domain message of a session whose
\* ingestion is completed, the completer returns, and the session has no
\* index or the retriever raises
C26_Degraded(s, m, r1, llm, r2) ==
    /\ Answerable(s)
    /\ is_diet_related_question_of[lower_of[m]]
    /\ ~llm.raises
    /\ ~HasIndex(s) \/ r1 = "raise"
    /\ send_message(s, m, r1, llm, r2)

\* the exchange succeeds with zero sources and one ChatEntry is appended
C26_Answered(s, m) ==
    /\ last'.status_code = 200
    /\ last'.sources = <<>>
    /\ sessions'[s].chat_history
          = Append(sessions[s].chat_history,
                   ChatEntry(last'.message_id, m, last'.response, <<>>))

C27_Raises == [raises |-> TRUE, text |-> <<>>]

\* C27: when the completer raises during an exchange, the client gets a
\* structured error on both transports: a server error on the HTTP path, with
\* nothing stored, and one frame of type "error" on the streaming channel,
\* whose connection stays open and waits for the next message.
C27_UpstreamErrorStructured ==
    [][ /\ (last'.op = "send_message" /\ last'.prompts # <<>>)
           => \A r1 \in RetrieverOutcomes, r2 \in RetrieverOutcomes :
                 send_message(last'.session_id, last'.message, r1, C27_Raises, r2)
                 => /\ last'.status_code = 500
                    /\ sessions' = sessions
        /\ (last'.op = "websocket_chat" /\ last'.prompts # <<>>)
           => \A c \in 1..MaxConnections, r1 \in RetrieverOutcomes :
                 WsReceive(c, last'.message, r1, C27_Raises)
                 => /\ conns'[c].state = "open"
                    /\ conns'[c].pc = "recv"
                    /\ conns'[c].frames = <<Frame("error", ErrorText, <<>>)>>
                    /\ sessions' = sessions ]_vars

\* messages that ask for a plan, and the number of days each asks for
C28_Requests ==
    { <<
        <<"d","i","e","t"," ","p","l","a","n"," ","f","o","r"," ","7"," ","d","a","y","s">>, 7>>, <<
        <<"G","i","v","e"," ","m","e"," ","a"," ","1","0"," ","d","a","y"," ","m","e","a","l",
        " ","p","l","a","n">>, 10>>,
      <<
        <<"d","i","e","t"," ","p","l","a","n"," ","f","o","r"," ","1","4"," ","d","a","y","s">>, 14>>, <<
        <<"d","i","e","t"," ","p","l","a","n"," ","f","o","r"," ","3"," ","w","e","e","k","s">>, 21>>,
      <<
        <<"D","i","e","t"," ","p","l","a","n"," ","f","o","r"," ","1"," ","m","o","n","t","h">>, 30>> }

\* C28: in a session created with no files, the message "diet plan for 14
\* days" is answered at once through the plan path with N = 14: the
\* completer is invoked exactly once, with the directive that requires the
\* headings 'Day 1:' through 'Day 14:', and its normalized output is the
\* response; and for every supported N the directive names exactly the N
\* the message asks for.
C28_PlanDirective ==
    [][ \A e \in C28_Requests :
          (/\ last'.op = "send_message"
           /\ last'.message = e[1]
           /\ last'.session_id \in DOMAIN sessions)
          => /\ last'.prompts = <<PlanPrompt(e[2], <<>>, FALSE)>>
             /\ last'.prompts[1].kind = "plan"
             /\ last'.prompts[1].days = e[2]
             /\ \A llm \in CompleterOutcomes :
                   send_message(last'.session_id, e[1], "ok", llm, "ok")
                   => IF llm.raises THEN last'.status_code = 500
                      ELSE /\ last'.status_code = 200
                           /\ last'.response = format_response(llm.text) ]_vars

\* "diet plan for 14 days" has been answered with the normalized output of a
\* completer that was asked for 14 days
C28_Witness ==
    /\ last.op = "send_message"
    /\ last.message = 
        <<"d","i","e","t"," ","p","l","a","n"," ","f","o","r"," ","1","4"," ","d","a","y","s">>
    /\ last.status_code = 200
    /\ Len(last.prompts) = 1
    /\ last.prompts[1].days = 14
    /\ last.response # <<>>
    /\ sessions[last.session_id].files = <<>>

\* text has a triple-asterisk emphasis span: "***", some characters other
\* than "*", "***"
C29_HasTripleSpan(text) ==
    \E p, q \in DOMAIN text :
        /\ p + 4 <= q
        /\ q + 2 <= Len(text)
        /\ \A k \in p..(p + 2) : text[k] = "*"
        /\ \A k \in (p + 3)..(q - 1) : text[k] # "*"
        /\ \A k \in q..(q + 2) : text[k] = "*"

\* text has a run of n equal characters c
C29_HasRun(text, c, n) ==
    \E p \in DOMAIN text :
        /\ p + n - 1 <= Len(text)
        /\ \A k \in p..(p + n - 1) : text[k] = c

\* text has a line that begins with a bullet glyph followed by whitespace
C29_HasGlyphBullet(text) ==
    \E p \in DOMAIN text :
        /\ p = 1 \/ text[p - 1] = "\n"
        /\ text[p] \in {"U+2022", "*", "U+00B7"}
        /\ p + 1 <= Len(text)
        /\ text[p + 1] \in {" ", "\t"}

\* C29: for every input text, format_response yields a text with no
\* triple-asterisk emphasis span (each has become a double-asterisk span), no
\* run of four or more '#', no line that begins with a bullet glyph followed
\* by whitespace (each begins with "- "), and no run of more than one blank
\* line.
C29_Normalized ==
    formatted.applied
    => /\ ~C29_HasTripleSpan(formatted.text)
       /\ ~C29_HasRun(formatted.text, "#", 4)
       /\ ~C29_HasGlyphBullet(formatted.text)
       /\ ~C29_HasRun(formatted.text, "\n", 3)

\* what an answered exchange of session s with message m leaves behind: one
\* more ChatEntry, and, when m asks for a plan of a supported number of days,
\* one more diet plan, stored under that number of days
C30_Leaves(s, m, entry) ==
    LET text == lower_of[strip_of[m]]
        days == parse_days_from_text_of[text]
        plans == sessions[s].diet_plans
    IN  /\ sessions'[s].chat_history = Append(sessions[s].chat_history, entry)
        /\ IF is_diet_related_question_of[text] /\ days \in {7, 10, 14, 21, 30}
           THEN /\ Len(sessions'[s].diet_plans) = Len(plans) + 1
                /\ SubSeq(sessions'[s].diet_plans, 1, Len(plans)) = plans
                /\ sessions'[s].diet_plans[Len(plans) + 1].duration
                      = ToString(days) \o "_days"
           ELSE sessions'[s].diet_plans = plans

\* C30: the streaming path and the HTTP message path are the same
\* orchestration: an exchange answered on either of them leaves the same
\* session state behind, the ChatEntry of the exchange and, for a request of
\* a supported plan, the new diet-plan entry.
C30_SameOrchestration ==
    [][ /\ (last'.op = "send_message" /\ last'.status_code = 200)
           => C30_Leaves(last'.session_id, last'.message,
                         ChatEntry(last'.message_id, last'.message, last'.response,
                                   last'.sources))
        /\ \A c \in 1..MaxConnections :
              (/\ conns[c].state = "open"
               /\ conns[c].pc = "append"
               /\ conns'[c].pc = "recv")
              => C30_Leaves(conns[c].session_id, conns[c].message,
                            ChatEntry(conns[c].request, conns[c].message,
                                      conns[c].response_text, conns[c].sources)) ]_vars

\* C31: when an ingestion run writes the status completed, each file of the
\* run has an index and chunk pair in the faiss directory of the session if
\* and only if it is a PDF, and an OCR sidecar file if and only if it is not
\* a PDF (an image never gets an index entry); and the index and OCR files of
\* a session whose status is completed stay as they are.
C31_IndexIffPdf ==
    [][ /\ (run.pc = "loop" /\ run'.pc = "meta")
           => /\ ingest_tasks'[run.session_id].status = "completed"
              /\ \A j \in DOMAIN run.file_paths :
                    LET file_path == run.file_paths[j]
                    IN  /\ file_path.base \in disk'[run.session_id].index
                           <=> file_path.ext = ".pdf"
                        /\ file_path.base \in disk'[run.session_id].ocr
                           <=> file_path.ext # ".pdf"
        /\ \A s \in DOMAIN ingest_tasks :
              ingest_tasks[s].status = "completed"
              => /\ disk'[s].index = disk[s].index
                 /\ disk'[s].ocr = disk[s].ocr ]_vars

\* a run over a PDF and an image has completed: one index, one OCR file
C31_Witness ==
    \E s \in DOMAIN sessions :
        /\ ingest_tasks[s].status = "completed"
        /\ run.pc = "idle"
        /\ Len(sessions[s].files) = 2
        /\ disk[s].index = {sessions[s].files[1].base}
        /\ disk[s].ocr = {sessions[s].files[2].base}
        /\ sessions[s].files[1].ext = ".pdf"
        /\ sessions[s].files[2].ext = ".png"

\* the step appends the ChatEntry of an exchange to the history of session s:
\* a send_message that answers, or the append of a streamed exchange
C32_Appends(s) ==
    \/ /\ last'.op = "send_message"
       /\ last'.status_code = 200
       /\ last'.session_id = s
    \/ \E c \in 1..MaxConnections :
          /\ conns[c].state = "open"
          /\ conns[c].session_id = s
          /\ conns[c].pc = "append"
          /\ conns'[c].pc = "recv"

\* the step records a plan in the diet plans of session s
C32_RecordsPlan(s) ==
    /\ last'.session_id = s
    /\ last'.status_code = 200
    /\ \/ last'.op = "generate_diet_plan"
       \/ /\ last'.op = "send_message"
          /\ Len(last'.prompts) = 1
          /\ last'.prompts[1].kind = "plan"

\* C32: no update of a session is lost, however HTTP and WebSocket exchanges
\* of the session overlap: every exchange that reaches its append step adds
\* exactly one ChatEntry and keeps every entry that was there, every recorded
\* plan adds exactly one entry to the diet plans and keeps the others, and no
\* other step changes either list.
C32_NoLostUpdate ==
    [][ \A s \in DOMAIN sessions :
          LET history == sessions[s].chat_history
              plans == sessions[s].diet_plans
          IN  /\ IF C32_Appends(s)
                 THEN /\ Len(sessions'[s].chat_history) = Len(history) + 1
                      /\ SubSeq(sessions'[s].chat_history, 1, Len(history)) = history
                      /\ \A j \in DOMAIN history :
                            history[j].message_id
                               # sessions'[s].chat_history[Len(history) + 1].message_id
                 ELSE sessions'[s].chat_history = history
              /\ IF C32_RecordsPlan(s)
                 THEN /\ Len(sessions'[s].diet_plans) = Len(plans) + 1
                      /\ SubSeq(sessions'[s].diet_plans, 1, Len(plans)) = plans
                 ELSE sessions'[s].diet_plans = plans ]_vars

\* an HTTP exchange that arrived while a response was streamed and the
\* streamed exchange are both in the history
C32_Witness ==
    \E s \in DOMAIN sessions :
        /\ Len(sessions[s].chat_history) = 2
        /\ sessions[s].chat_history[1].message_id = 2
        /\ sessions[s].chat_history[2].message_id = 1
        /\ Len(sessions[s].diet_plans) = 1

\* C33: on a WebSocket connection an out-of-domain message is handled the
\* same way whatever was sent before it on the connection: the retriever is
\* not invoked for it, the exchange ends, after the token frames, with the
\* canned redirect in a final frame of type "message" with zero sources, not
\* with a frame of type "error", and its ChatEntry has zero sources.
C33_RedirectIndependent ==
    [][ \A c \in 1..MaxConnections :
          (/\ conns[c].state = "open"
           /\ conns[c].pc = "stream"
           /\ ~is_diet_related_question_of[conns[c].message]
           /\ conns[c].i >= Len(words_of[conns[c].response_text])
           /\ conns'[c] # conns[c]
           /\ conns'[c].state = "open")
          => /\ conns[c].response_text = format_response(format_general_response)
             /\ conns'[c].pc = "append"
             /\ conns'[c].sources = <<>>
             /\ conns'[c].frames
                   = Append(conns[c].frames,
                            Frame("message", conns[c].response_text, <<>>)) ]_vars

C35_SameKeys ==
    [][ /\ DOMAIN sessions = DOMAIN ingest_tasks
        /\ DOMAIN sessions' = DOMAIN ingest_tasks'
        /\ DOMAIN sessions \subseteq DOMAIN sessions'
        /\ \A task \in background' : task.session_id \in DOMAIN sessions'
        /\ run'.pc # "idle" => run'.session_id \in DOMAIN sessions'
        /\ \A s \in DOMAIN ingest_tasks :
              ingest_tasks'[s] # ingest_tasks[s]
              => /\ run.session_id = s \/ \E task \in background : task.session_id = s
                 /\ s \in DOMAIN sessions ]_vars

\* two sessions are registered, and the run of one of them has written its
\* status
C35_Witness ==
    /\ DOMAIN sessions = {1, 2}
    /\ DOMAIN ingest_tasks = {1, 2}
    /\ ingest_tasks[1].status = "completed"
    /\ ingest_tasks[2].status = "in_progress"
    /\ run.session_id = 2

\* the contents of the token frames sent so far on connection c, in the
\* order they were sent, put together
C36_Streamed(c) ==
    LET tokens == SelectSeq(conns[c].frames, LAMBDA f : f.type = "token")
    IN  Concat([j \in 1..Len(tokens) |-> tokens[j].text])

\* the exchange of connection c has sent its last token frame
C36_TokensDone(c) ==
    /\ conns[c].state = "open"
    /\ \/ conns[c].pc = "append"
       \/ conns[c].pc = "stream" /\ conns[c].i >= Len(Words(conns[c].response_text))

\* the characters of a text that are not blanks, in order
C36_Letters(s) == SelectSeq(s, LAMBDA ch : ~IsSpace(ch))

\* C36: once the token frames of a streamed exchange are sent, their contents
\* put together in the order of emission are the words of the response text
\* joined by single spaces: the same characters in the same order as the
\* response without its blanks, no two spaces in a row, no space at either
\* end; and a response without words has produced no token frame.
C36_TokensJoinWords ==
    \A c \in 1..MaxConnections :
        C36_TokensDone(c)
        => LET text == conns[c].response_text
               streamed == C36_Streamed(c)
           IN  /\ streamed = JoinWords(Words(text))
               /\ C36_Letters(streamed) = C36_Letters(text)
               /\ \A p \in DOMAIN streamed :
                     /\ streamed[p] \in {"\t", "\n", "\r"} => FALSE
                     /\ streamed[p] = " " => /\ p > 1 /\ p < Len(streamed)
                                             /\ streamed[p + 1] # " "
               /\ C36_Letters(text) = <<>>
                  => \A j \in DOMAIN conns[c].frames : conns[c].frames[j].type # "token"

\* a response of eleven words separated by line ends has been streamed in
\* three token frames
C36_Witness ==
    /\ conns[1].pc = "append"
    /\ Len(Words(conns[1].response_text)) = 11
    /\ \E p \in DOMAIN conns[1].response_text : conns[1].response_text[p] = "\n"
    /\ Len(SelectSeq(conns[1].frames, LAMBDA f : f.type = "token")) = 3
    /\ C36_Streamed(1) = 
        <<"a"," ","b","b"," ","c"," ","d","d"," ","e"," ","f","f"," ","g"," ","h","h"," ","i",
        " ","j","j"," ","k">>

\* the session's entry and its ingestion status are what they were before
\* the step
C37_SessionUntouched ==
    /\ sessions' = sessions
    /\ ingest_tasks' = ingest_tasks

\* C37: when the completer raises during an exchange, the exchange leaves the
\* state of the session as it was, on the HTTP message path, on the plan
\* endpoint and on the streaming channel: no ChatEntry is appended, no diet
\* plan is recorded and the ingestion status is not written.
C37_RaiseLeavesSession ==
    [][ /\ (last'.op = "send_message" /\ last'.prompts # <<>>)
           => \A r1 \in RetrieverOutcomes, r2 \in RetrieverOutcomes :
                 send_message(last'.session_id, last'.message, r1, C27_Raises, r2)
                 => C37_SessionUntouched
        /\ (last'.op = "generate_diet_plan" /\ last'.prompts # <<>>)
           => \A r1 \in RetrieverOutcomes :
                 generate_diet_plan(last'.session_id, last'.duration, r1, C27_Raises)
                 => C37_SessionUntouched
        /\ (last'.op = "websocket_chat" /\ last'.prompts # <<>>)
           => \A c \in 1..MaxConnections, r1 \in RetrieverOutcomes :
                 WsReceive(c, last'.message, r1, C27_Raises)
                 => /\ C37_SessionUntouched
                    /\ conns'[c].pc # "append" ]_vars

\* the completer has raised on a message of a session whose files are
\* ingested: the request failed after the prompt was built, and the session
\* has no ChatEntry and no diet plan
C37_Witness ==
    /\ last.op = "send_message"
    /\ last.prompts # <<>>
    /\ last.status_code = 500
    /\ last.session_id \in DOMAIN sessions
    /\ sessions[last.session_id].files # <<>>
    /\ sessions[last.session_id].chat_history = <<>>
    /\ sessions[last.session_id].diet_plans = <<>>
    /\ ingest_tasks[last.session_id].status = "completed"

\* the step is addressed to session A: a request that names A, a step of
\* the ingestion run of A, or a step of a connection opened for A
C38_Addressed(A) ==
    \/ last'.op # "none" /\ last'.session_id = A
    \/ /\ last'.op = "none"
       /\ run' # run
       /\ A \in {run.session_id, run'.session_id}
    \/ /\ last'.op = "none"
       /\ \E c \in 1..MaxConnections :
             conns'[c] # conns[c] /\ conns'[c].session_id = A

\* C38: sessions are isolated: a step addressed to session A (a message, a
\* step of a streamed exchange, an upload, a feedback, a plan request, a
\* step of an ingestion run) leaves the profile, the file list, the chat
\* history, the diet plans, the feedback log and the ingestion status of
\* every other session B as they were.
C38_Isolated ==
    [][ \A A \in DOMAIN sessions' :
           C38_Addressed(A)
           => \A B \in DOMAIN sessions \ {A} :
                 /\ sessions'[B] = sessions[B]
                 /\ ingest_tasks'[B] = ingest_tasks[B] ]_vars

\* both sessions have been written by steps addressed to them: the first
\* has a ChatEntry and a feedback, the second a completed ingestion
C38_Witness ==
    /\ DOMAIN sessions = {1, 2}
    /\ Len(sessions[1].chat_history) = 1
    /\ Len(sessions[1].feedback) = 1
    /\ sessions[2].chat_history = <<>>
    /\ sessions[2].feedback = <<>>
    /\ ingest_tasks[2].status = "completed"
    /\ ingest_tasks[1].status = "completed"

====
